---- MODULE Spec2Model ----
(***************************************************************************)
(* Model of the filename taxonomy engine of Logo/github-linkfetch.py:      *)
(* parse_and_validate_files (resolver, token classifier, validator),       *)
(* create_manifest (manifest builder) and group_and_finalize_logos         *)
(* (variant grouper), run as the batch pipeline of the script's main       *)
(* section; and of the sorter Logo/sort-logos.py: normalisation, token      *)
(* parsing, filename and folder synthesis, and the sort, crawl and repair  *)
(* runs on a directory tree.                                               *)
(*                                                                         *)
(* A Python str is a sequence of one-character strings, so that lower(),   *)
(* replace(), startswith(), split() and the path functions are computed    *)
(* character by character. Dictionary keys that are literals of the code   *)
(* (the attribute group names) are TLA+ strings.                           *)
(***************************************************************************)
EXTENDS Integers, Sequences, FiniteSets, TLC

VARIABLES
    urls,          \* the list handed to parse_and_validate_files
    pc,            \* position of the main section: "parse", "manifest", "group", "done"
    i,             \* number of urls the parse loop has consumed
    parsed_files,  \* list of [url, raw_variants]
    ignored_log,   \* list of [file, reason]
    j,             \* number of parsed files the grouping loop has consumed
    grouped_logos, \* insertion-ordered dict: variant_key -> (format_key -> url)
    logos_list,    \* the sorted result of group_and_finalize_logos
    manifest,      \* the result of create_manifest: list of [group, name, options]
    run,           \* number of the script run: 1, or 2 once the script is run again
    first,         \* the inputs and outputs of run 1, kept when the script is run again
    n_pc,          \* naming study: "start", "classified", "skipped", "built", "again"
    n_stem,        \* naming study: the stem of a file found in .sort
    n_brand,       \* naming study: the brand detected for the file
    n_tokens,      \* naming study: the tokens dict after the defaults
    n_subdir,      \* naming study: the destination folder
    n_new_base,    \* naming study: the canonical filename without extension
    n_again,       \* naming study: brand and tokens of the canonical filename
    s_pc,          \* sorter: position of main() and of the run it dispatches to
    args,          \* sorter: the command line, [mode, overwrite, assume_no]
    DELETE_POLICY, \* sorter: the global dict, rule -> "None", "True" or "False"
    fs,            \* sorter: the files below base_dir, path -> [origin, members]
    dirs,          \* sorter: the directories of base_dir that exist
    sort_files,    \* sorter: the entries of .sort the sort loop has yet to visit
    stats,         \* sorter: the counters of sort_from_dot_sort
    crawl,         \* sorter: the arguments and counters of the running crawl_and_zip
    brand_roots,   \* sorter: the brand roots the crawl has yet to finish
    visited,       \* sorter: the folders of the current root os.walk has listed
    walk,          \* sorter: the files of the listed folder the crawl has yet to visit
    removed,       \* sorter: what the run has removed, set of [path, origin, by]
    r_keys,        \* resolver study: the dict keys of the asset-type table
    r_name,        \* resolver study: the filename stem
    r_brand,       \* resolver study: the detected brand_key
    r_pc           \* resolver study: "start", "resolved"

resolver_vars == <<r_keys, r_name, r_brand, r_pc>>

rerun_vars == <<run, first>>

names_vars == <<n_pc, n_stem, n_brand, n_tokens, n_subdir, n_new_base, n_again>>

sorter_vars == <<s_pc, args, DELETE_POLICY, fs, dirs, sort_files, stats, crawl,
                 brand_roots,
                 visited, walk, removed>>

vars == <<urls, pc, i, parsed_files, ignored_log, j, grouped_logos, logos_list, manifest,
          resolver_vars, rerun_vars, names_vars, sorter_vars>>

-----------------------------------------------------------------------------
(* Python str and os.path primitives                                       *)

Range(s) == {s[k] : k \in DOMAIN s}

\* None, and the falsy empty str the code tests with `if brand_key`
None == <<>>

\* the variables of the naming study while another specification runs
NamesIdle ==
    /\ n_pc = "off"
    /\ n_stem = None
    /\ n_brand = None
    /\ n_tokens = None
    /\ n_subdir = None
    /\ n_new_base = None
    /\ n_again = None

\* the variables of the sorter while another specification runs
SorterIdle ==
    /\ s_pc = "off"
    /\ args = [mode |-> "off", overwrite |-> TRUE, assume_no |-> FALSE]
    /\ DELETE_POLICY = [size_xxs_tm |-> "None", white_jpg |-> "None", accent_banned |-> "None"]
    /\ fs = <<>>
    /\ dirs = {}
    /\ sort_files = {}
    /\ stats = [kept |-> 0, moved |-> 0, deleted |-> 0, skipped |-> 0, renamed |-> 0]
    /\ crawl = [do_repairs |-> FALSE, do_renames |-> FALSE, overwrite |-> TRUE,
                due |-> {}, kept |-> 0, deleted |-> 0, zip_variant_created |-> 0,
                zip_variant_skip_exists |-> 0, zip_brand_created |-> 0,
                zip_brand_skip_exists |-> 0]
    /\ brand_roots = <<>>
    /\ visited = {}
    /\ walk = {}
    /\ removed = {}

\* the characters of the model in code-point order
Alphabet == <<"+", "-", ".", "/", "0", "1", "2", "3", "4", "5", "6", "7", "8", "9",
              "A", "B", "C", "D", "E", "F", "G", "H", "I", "J", "K", "L", "M",
              "N", "O", "P", "Q", "R", "S", "T", "U", "V", "W", "X", "Y", "Z", "_",
              "a", "b", "c", "d", "e", "f", "g", "h", "i", "j", "k", "l", "m",
              "n", "o", "p", "q", "r", "s", "t", "u", "v", "w", "x", "y", "z">>

Ord(c) == CHOOSE k \in DOMAIN Alphabet : Alphabet[k] = c

UpperCase == <<"A", "B", "C", "D", "E", "F", "G", "H", "I", "J", "K", "L", "M",
               "N", "O", "P", "Q", "R", "S", "T", "U", "V", "W", "X", "Y", "Z">>

LowerCase == <<"a", "b", "c", "d", "e", "f", "g", "h", "i", "j", "k", "l", "m",
               "n", "o", "p", "q", "r", "s", "t", "u", "v", "w", "x", "y", "z">>

\* str.lower() on one character
LowerChar(c) ==
    IF \E k \in DOMAIN UpperCase : UpperCase[k] = c
    THEN LowerCase[CHOOSE k \in DOMAIN UpperCase : UpperCase[k] = c]
    ELSE c

\* str.lower()
Lower(s) == [k \in DOMAIN s |-> LowerChar(s[k])]

\* s[n:]
Drop(s, n) == SubSeq(s, n + 1, Len(s))

\* str.startswith
StartsWith(s, p) == Len(p) <= Len(s) /\ SubSeq(s, 1, Len(p)) = p

\* `p in s` for strs
Contains(s, p) == \E k \in 1..(Len(s) - Len(p) + 1) : SubSeq(s, k, k + Len(p) - 1) = p

\* str.replace(old, new), old non-empty: leftmost non-overlapping occurrences
RECURSIVE Replace(_, _, _)
Replace(s, old, new) ==
    IF s = <<>> THEN <<>>
    ELSE IF StartsWith(s, old) THEN new \o Replace(Drop(s, Len(old)), old, new)
    ELSE <<Head(s)>> \o Replace(Tail(s), old, new)

\* str.lstrip(c) and str.rstrip(c) for one character, and str.strip(c)
RECURSIVE LStrip(_, _)
LStrip(s, c) == IF s # <<>> /\ Head(s) = c THEN LStrip(Tail(s), c) ELSE s

RECURSIVE RStrip(_, _)
RStrip(s, c) ==
    IF s # <<>> /\ s[Len(s)] = c THEN RStrip(SubSeq(s, 1, Len(s) - 1), c) ELSE s

Strip(s, c) == RStrip(LStrip(s, c), c)

\* index of the last occurrence of character c in s, 0 when absent (str.rfind + 1)
RFind(s, c) ==
    IF \E k \in DOMAIN s : s[k] = c
    THEN CHOOSE k \in DOMAIN s : s[k] = c /\ \A m \in (k + 1)..Len(s) : s[m] # c
    ELSE 0

\* index of the first occurrence of character c in s, 0 when absent
Find(s, c) ==
    IF \E k \in DOMAIN s : s[k] = c
    THEN CHOOSE k \in DOMAIN s : s[k] = c /\ \A m \in 1..(k - 1) : s[m] # c
    ELSE 0

\* str.split(c): the list of the parts between the separators, empty parts kept
RECURSIVE Split(_, _)
Split(s, c) ==
    LET k == Find(s, c)
    IN  IF k = 0 THEN <<s>>
        ELSE <<SubSeq(s, 1, k - 1)>> \o Split(Drop(s, k), c)

\* os.path.basename (posixpath): what follows the last "/"
Basename(p) == Drop(p, RFind(p, "/"))

\* os.path.splitext (posixpath): <<root, ext>>; the extension starts at the last
\* dot of the last path component unless only dots precede it there
Splitext(p) ==
    LET sep == RFind(p, "/")
        dot == RFind(p, ".")
    IN  IF dot > sep /\ \E k \in (sep + 1)..(dot - 1) : p[k] # "."
        THEN <<SubSeq(p, 1, dot - 1), Drop(p, dot - 1)>>
        ELSE <<p, <<>>>>

\* lexicographic str comparison a <= b by code point
RECURSIVE StrLeq(_, _)
StrLeq(a, b) ==
    IF a = <<>> THEN TRUE
    ELSE IF b = <<>> THEN FALSE
    ELSE IF Head(a) = Head(b) THEN StrLeq(Tail(a), Tail(b))
    ELSE Ord(Head(a)) < Ord(Head(b))

-----------------------------------------------------------------------------
(* The configuration tables                                                *)

BRAND_CANON == <<
    <<"K","H","-","A","r","c","h","i","t","e","k","t","e","n","+","I","n","g","e","n","i","e","u","r","e">> (* KH-Architekten+Ingenieure *),
    <<"K","H","-","G","e","b","a","e","u","d","e","d","r","u","c","k">> (* KH-Gebaeudedruck *),
    <<"K","H","-","G","r","u","p","p","e">> (* KH-Gruppe *),
    <<"K","H","-","I","m","m","o","b","i","l","i","e","n">> (* KH-Immobilien *),
    <<"K","O","R","T","E","-","H","O","F","F","M","A","N","N">> (* KORTE-HOFFMANN *) >>

T_standard_logo == <<"s","t","a","n","d","a","r","d","_","l","o","g","o">> (* standard_logo *)
T_korte_hoffmann_logotype == <<"k","o","r","t","e","_","h","o","f","f","m","a","n","n","_","l","o","g","o","t","y","p","e">> (* korte_hoffmann_logotype *)
T_dreihaus_logo == <<"d","r","e","i","h","a","u","s","_","l","o","g","o">> (* dreihaus_logo *)
T_favicon == <<"f","a","v","i","c","o","n">> (* favicon *)
T_monogram == <<"m","o","n","o","g","r","a","m">> (* monogram *)

K_korte_hoffmann == <<"k","o","r","t","e","-","h","o","f","f","m","a","n","n">> (* korte-hoffmann *)
K_dreihaus == <<"d","r","e","i","h","a","u","s">> (* dreihaus *)

\* the dict in insertion order; "key" is the dict key, "type" and "name" the entry's fields
ASSET_TYPE_KEYS == <<
    [key |-> <<"a","r","c","h","i","t","e","k","t","e","n","+","i","n","g","e","n","i","e","u","r","e">> (* architekten+ingenieure *), type |-> T_standard_logo, name |-> <<"A","r","c","h","i","t","e","k","t","e","n","+","I","n","g","e","n","i","e","u","r","e">> (* Architekten+Ingenieure *)],
    [key |-> <<"g","e","b","a","e","u","d","e","d","r","u","c","k">> (* gebaeudedruck *), type |-> T_standard_logo, name |-> <<"G","e","b","ä","u","d","e","d","r","u","c","k">> (* Gebäudedruck *)],
    [key |-> <<"g","r","u","p","p","e">> (* gruppe *), type |-> T_standard_logo, name |-> <<"G","r","u","p","p","e">> (* Gruppe *)],
    [key |-> <<"i","m","m","o","b","i","l","i","e","n">> (* immobilien *), type |-> T_standard_logo, name |-> <<"I","m","m","o","b","i","l","i","e","n">> (* Immobilien *)],
    [key |-> K_korte_hoffmann, type |-> T_korte_hoffmann_logotype, name |-> <<"K","o","r","t","e","-","H","o","f","f","m","a","n","n">> (* Korte-Hoffmann *)],
    [key |-> K_dreihaus, type |-> T_dreihaus_logo, name |-> <<"D","r","e","i","h","a","u","s">> (* Dreihaus *)],
    [key |-> T_favicon, type |-> T_favicon, name |-> <<"F","a","v","i","c","o","n">> (* Favicon *)],
    [key |-> T_monogram, type |-> T_monogram, name |-> <<"M","o","n","o","g","r","a","m">> (* Monogram *)] >>

AssetKeys == {ASSET_TYPE_KEYS[k].key : k \in DOMAIN ASSET_TYPE_KEYS}

\* {'architekten+ingenieure','gebaeudedruck','gruppe','immobilien'}
StandardBrandKeys ==
    {ASSET_TYPE_KEYS[k].key : k \in {m \in DOMAIN ASSET_TYPE_KEYS :
                                        ASSET_TYPE_KEYS[m].type = T_standard_logo}}

\* the dict in insertion order; hasValue says whether the entry carries a 'value', otherwise
\* definition.get('value', part) is the token itself; name is None where the entry has none
VARIANT_PART_DEFINITIONS == <<
    [key |-> <<"s","i","z","e","-","x","x","s">> (* size-xxs *), group |-> "optical_size", hasValue |-> TRUE, value |-> <<"x","x","s">> (* xxs *),
         name |-> <<"E","x","t","r","a"," ","E","x","t","r","a"," ","S","m","a","l","l">> (* Extra Extra Small *)],
    [key |-> <<"s","i","z","e","-","m">> (* size-m *), group |-> "optical_size", hasValue |-> TRUE, value |-> <<"m">> (* m *),
         name |-> <<"M","e","d","i","u","m">> (* Medium *)],
    [key |-> <<"s","i","z","e","-","x","x","l">> (* size-xxl *), group |-> "optical_size", hasValue |-> TRUE, value |-> <<"x","x","l">> (* xxl *),
         name |-> <<"E","x","t","r","a"," ","E","x","t","r","a"," ","L","a","r","g","e">> (* Extra Extra Large *)],
    [key |-> <<"s","i","z","e","-","s">> (* size-s *), group |-> "optical_size", hasValue |-> TRUE, value |-> <<"x","x","s">> (* xxs *),
         name |-> <<"S","m","a","l","l"," ","(","L","e","g","a","c","y",")">> (* Small (Legacy) *)],
    [key |-> <<"s","i","z","e","-","l">> (* size-l *), group |-> "optical_size", hasValue |-> TRUE, value |-> <<"x","x","l">> (* xxl *),
         name |-> <<"L","a","r","g","e"," ","(","L","e","g","a","c","y",")">> (* Large (Legacy) *)],
    [key |-> <<"b","l","a","c","k">> (* black *), group |-> "color", hasValue |-> FALSE, value |-> None,
         name |-> <<"B","l","a","c","k">> (* Black *)],
    [key |-> <<"w","h","i","t","e">> (* white *), group |-> "color", hasValue |-> FALSE, value |-> None,
         name |-> <<"W","h","i","t","e">> (* White *)],
    [key |-> <<"b","l","a","c","k","+","a","c","c","e","n","t">> (* black+accent *), group |-> "color", hasValue |-> FALSE, value |-> None,
         name |-> <<"B","l","a","c","k","+","A","c","c","e","n","t">> (* Black+Accent *)],
    [key |-> <<"w","h","i","t","e","+","a","c","c","e","n","t">> (* white+accent *), group |-> "color", hasValue |-> FALSE, value |-> None,
         name |-> <<"W","h","i","t","e","+","A","c","c","e","n","t">> (* White+Accent *)],
    [key |-> <<"c","e","n","t","e","r">> (* center *), group |-> "lockup", hasValue |-> FALSE, value |-> None,
         name |-> <<"C","e","n","t","e","r">> (* Center *)],
    [key |-> <<"l","e","f","t">> (* left *), group |-> "lockup", hasValue |-> FALSE, value |-> None,
         name |-> <<"L","e","f","t">> (* Left *)],
    [key |-> <<"r","i","g","h","t">> (* right *), group |-> "lockup", hasValue |-> FALSE, value |-> None,
         name |-> <<"R","i","g","h","t">> (* Right *)],
    [key |-> <<"c","e","n","t","e","r","-","c","o","m","p","a","c","t">> (* center-compact *), group |-> "lockup", hasValue |-> FALSE, value |-> None,
         name |-> <<"C","e","n","t","e","r","-","C","o","m","p","a","c","t">> (* Center-Compact *)],
    [key |-> <<"b","a","r">> (* bar *), group |-> "bar", hasValue |-> TRUE, value |-> TRUE,
         name |-> <<"B","a","r">> (* Bar *)],
    [key |-> <<"n","o","-","b","a","r">> (* no-bar *), group |-> "bar", hasValue |-> TRUE, value |-> FALSE,
         name |-> <<"N","o"," ","B","a","r">> (* No Bar *)],
    [key |-> <<"c","o","m","p","a","c","t">> (* compact *), group |-> "compact", hasValue |-> TRUE, value |-> TRUE,
         name |-> <<"C","o","m","p","a","c","t">> (* Compact *)],
    [key |-> <<"n","o","-","c","o","m","p","a","c","t">> (* no-compact *), group |-> "compact", hasValue |-> TRUE, value |-> FALSE,
         name |-> <<"N","o"," ","C","o","m","p","a","c","t">> (* No Compact *)],
    [key |-> <<"t","r","a","d","e","m","a","r","k">> (* trademark *), group |-> "trademark", hasValue |-> TRUE, value |-> TRUE,
         name |-> <<"W","i","t","h"," ","®">> (* With ® *)],
    [key |-> <<"n","o","-","t","r","a","d","e","m","a","r","k">> (* no-trademark *), group |-> "trademark", hasValue |-> TRUE, value |-> FALSE,
         name |-> <<"W","i","t","h","o","u","t"," ","®">> (* Without ® *)],
    [key |-> <<"c","l","e","a","r","s","p","a","c","e">> (* clearspace *), group |-> "clearspace", hasValue |-> TRUE, value |-> TRUE,
         name |-> <<"W","i","t","h"," ","C","l","e","a","r","s","p","a","c","e">> (* With Clearspace *)],
    [key |-> <<"n","o","-","c","l","e","a","r","s","p","a","c","e">> (* no-clearspace *), group |-> "clearspace", hasValue |-> TRUE, value |-> FALSE,
         name |-> <<"W","i","t","h","o","u","t"," ","C","l","e","a","r","s","p","a","c","e">> (* Without Clearspace *)],
    [key |-> <<"r","g","b">> (* rgb *), group |-> "modifier", hasValue |-> FALSE, value |-> None,
         name |-> None],
    [key |-> <<"c","m","y","k">> (* cmyk *), group |-> "modifier", hasValue |-> FALSE, value |-> None,
         name |-> None] >>

\* the keys of VARIANT_PART_DEFINITIONS
VariantParts == {VARIANT_PART_DEFINITIONS[k].key : k \in DOMAIN VARIANT_PART_DEFINITIONS}

\* VARIANT_PART_DEFINITIONS[part]
Definition(part) ==
    VARIANT_PART_DEFINITIONS[CHOOSE k \in DOMAIN VARIANT_PART_DEFINITIONS :
                                 VARIANT_PART_DEFINITIONS[k].key = part]

\* REQUIRED_BY_ASSET_TYPE.get(asset_type, set())
REQUIRED_BY_ASSET_TYPE(asset_type) ==
    IF asset_type = T_standard_logo THEN {"division", "optical_size", "color", "lockup"}
    ELSE IF asset_type = T_korte_hoffmann_logotype
         THEN {"division", "optical_size", "color", "compact"}
    ELSE IF asset_type = T_dreihaus_logo THEN {"optical_size", "color"}
    ELSE IF asset_type = T_monogram THEN {"color"}
    ELSE IF asset_type = T_favicon THEN {"color"}
    ELSE {}

-----------------------------------------------------------------------------
(* parse_and_validate_files                                                *)

\* insertion step of sorted(..., key=len, reverse=True): the sort is stable, so
\* x goes behind every element that is at least as long
RECURSIVE InsertByLen(_, _)
InsertByLen(sorted, x) ==
    IF sorted = <<>> THEN <<x>>
    ELSE IF Len(Head(sorted)) >= Len(x)
         THEN <<Head(sorted)>> \o InsertByLen(Tail(sorted), x)
         ELSE <<x>> \o sorted

\* sorted(keys, key=len, reverse=True)
RECURSIVE SortedByLenReverse(_)
SortedByLenReverse(keys) ==
    IF keys = <<>> THEN <<>>
    ELSE InsertByLen(SortedByLenReverse(SubSeq(keys, 1, Len(keys) - 1)), keys[Len(keys)])

NotSpecialKeyword(k) == k \notin {T_favicon, T_monogram}

\* mutant: the keys are taken in dict order, the sort is forgotten
sorted_brand_keys_Unsorted(keys) == SelectSeq(keys, NotSpecialKeyword)

\* the brand keys of a table with the given dict keys, longest first
sorted_brand_keys(keys) == SortedByLenReverse(SelectSeq(keys, NotSpecialKeyword))

\* Step 1: the first key of the list that parts_str starts with, else None
RECURSIVE DetectBrand(_, _)
DetectBrand(parts_str, keys) ==
    IF keys = <<>> THEN None
    ELSE IF StartsWith(parts_str, Head(keys)) THEN Head(keys)
    ELSE DetectBrand(parts_str, Tail(keys))

\* filename.lower().replace('kh-', '')
PartsStr(filename) == Replace(Lower(filename), <<"k","h","-">> (* kh- *), <<>>)

\* Step 2: the secondary marker
AssetKeyHint(parts_str) ==
    IF Contains(parts_str, T_favicon) THEN T_favicon
    ELSE IF Contains(parts_str, T_monogram) THEN T_monogram
    ELSE None

\* ASSET_TYPE_KEYS[key]['type']
TypeOfKey(key) ==
    ASSET_TYPE_KEYS[CHOOSE k \in DOMAIN ASSET_TYPE_KEYS : ASSET_TYPE_KEYS[k].key = key].type

\* Step 2: the asset type, None in the branch that rejects the file
AssetType(asset_key_hint, brand_key) ==
    IF asset_key_hint # None THEN TypeOfKey(asset_key_hint)
    ELSE IF brand_key = K_korte_hoffmann THEN T_korte_hoffmann_logotype
    ELSE IF brand_key = K_dreihaus THEN T_dreihaus_logo
    ELSE IF brand_key \in StandardBrandKeys THEN T_standard_logo
    ELSE None

\* raw_variants[group] = value
Put(raw_variants, group, value) ==
    [g \in DOMAIN raw_variants \cup {group} |->
        IF g = group THEN value ELSE raw_variants[g]]

\* raw_variants.setdefault(group, value)
SetDefault(raw_variants, group, value) ==
    IF group \in DOMAIN raw_variants THEN raw_variants ELSE Put(raw_variants, group, value)

\* mutant: the division is set for the two asset types with a division only
WithDivision_BrandTypesOnly(asset_type, asset_key_hint, brand_key) ==
    LET rv == [g \in {"asset_type"} |-> asset_type]
    IN  IF asset_type \in {T_standard_logo, T_korte_hoffmann_logotype} /\ brand_key # None
        THEN Put(rv, "division", brand_key)
        ELSE rv

\* raw_variants after 'asset_type' and 'division' are set
WithDivision(asset_type, asset_key_hint, brand_key) ==
    LET rv == [g \in {"asset_type"} |-> asset_type]
    IN  IF asset_type \in {T_standard_logo, T_korte_hoffmann_logotype} /\ brand_key # None
        THEN Put(rv, "division", brand_key)
        ELSE IF asset_key_hint \in {T_favicon, T_monogram} /\ brand_key # None
                /\ brand_key # asset_key_hint
        THEN Put(rv, "division", brand_key)
        ELSE rv

\* Step 3: the list of parts the token loop runs over
RemainingParts(parts_str, brand_key) ==
    LET remaining_str == IF brand_key # None
                         THEN Strip(Drop(parts_str, Len(brand_key)), "_")
                         ELSE parts_str
    IN  IF remaining_str # <<>> THEN Split(remaining_str, "_") ELSE <<>>

\* a part outside the vocabulary is reported unless it is an asset-type key
Unmatched(unmatched, part) ==
    IF part \notin AssetKeys THEN Append(unmatched, part) ELSE unmatched

\* mutant: the group 'compact' is recorded for every asset type
RECURSIVE ParseParts_CompactForAll(_, _, _, _)
ParseParts_CompactForAll(parts, asset_type, raw_variants, unmatched) ==
    IF parts = <<>> THEN [raw_variants |-> raw_variants, unmatched |-> unmatched]
    ELSE
    LET part == Head(parts)
        rest == Tail(parts)
    IN  IF part = <<>> THEN ParseParts_CompactForAll(rest, asset_type, raw_variants, unmatched)
        ELSE IF part = <<"c","o","m","p","a","c","t">> (* compact *) /\ asset_type = T_standard_logo
        THEN ParseParts_CompactForAll(rest, asset_type,
                                      Put(raw_variants, "lockup", <<"c","e","n","t","e","r","-","c","o","m","p","a","c","t">> (* center-compact *)), unmatched)
        ELSE IF part = <<"n","o","-","c","o","m","p","a","c","t">> (* no-compact *) /\ asset_type = T_standard_logo
        THEN ParseParts_CompactForAll(rest, asset_type,
                                      Put(raw_variants, "lockup", <<"c","e","n","t","e","r">> (* center *)), unmatched)
        ELSE IF part \in VariantParts
        THEN ParseParts_CompactForAll(rest, asset_type,
                 Put(raw_variants, Definition(part).group,
                     IF Definition(part).hasValue THEN Definition(part).value ELSE part),
                 unmatched)
        ELSE ParseParts_CompactForAll(rest, asset_type, raw_variants,
                                      Unmatched(unmatched, part))

\* Step 3: the token loop, one part per unfolding
RECURSIVE ParseParts(_, _, _, _)
ParseParts(parts, asset_type, raw_variants, unmatched) ==
    IF parts = <<>> THEN [raw_variants |-> raw_variants, unmatched |-> unmatched]
    ELSE
    LET part == Head(parts)
        rest == Tail(parts)
    IN  IF part = <<>> THEN ParseParts(rest, asset_type, raw_variants, unmatched)
        ELSE IF part = <<"c","o","m","p","a","c","t">> (* compact *) /\ asset_type = T_standard_logo
        THEN ParseParts(rest, asset_type,
                        Put(raw_variants, "lockup", <<"c","e","n","t","e","r","-","c","o","m","p","a","c","t">> (* center-compact *)), unmatched)
        ELSE IF part = <<"n","o","-","c","o","m","p","a","c","t">> (* no-compact *) /\ asset_type = T_standard_logo
        THEN ParseParts(rest, asset_type, Put(raw_variants, "lockup", <<"c","e","n","t","e","r">> (* center *)), unmatched)
        ELSE IF part \in VariantParts
        THEN LET definition == Definition(part)
                 group == definition.group
                 value == IF definition.hasValue THEN definition.value ELSE part
             IN  IF group = "compact" /\ asset_type # T_korte_hoffmann_logotype
                 THEN ParseParts(rest, asset_type, raw_variants, unmatched)
                 ELSE ParseParts(rest, asset_type, Put(raw_variants, group, value), unmatched)
        ELSE ParseParts(rest, asset_type, raw_variants, Unmatched(unmatched, part))

\* mutant: the defaults are filled in for standard logos only
FillDefaults_StandardOnly(asset_type, raw_variants) ==
    IF asset_type = T_standard_logo
    THEN SetDefault(SetDefault(SetDefault(raw_variants, "bar", FALSE),
                               "trademark", FALSE), "clearspace", FALSE)
    ELSE raw_variants

\* Step 4: defaults of the optional booleans
FillDefaults(asset_type, raw_variants) ==
    IF asset_type = T_standard_logo
    THEN SetDefault(SetDefault(SetDefault(raw_variants, "bar", FALSE),
                               "trademark", FALSE), "clearspace", FALSE)
    ELSE IF asset_type = T_korte_hoffmann_logotype
    THEN SetDefault(SetDefault(SetDefault(raw_variants, "compact", FALSE),
                               "trademark", FALSE), "clearspace", FALSE)
    ELSE IF asset_type = T_dreihaus_logo
    THEN SetDefault(SetDefault(raw_variants, "trademark", FALSE), "clearspace", FALSE)
    ELSE raw_variants

\* one part of a reason text; the parts are joined with '; '. The f-strings render
\* the asset type, the sorted list of the missing groups and the unmatched list
ReasonPart(kind, asset_type, missing, unmatched) ==
    [kind |-> kind, asset_type |-> asset_type, missing |-> missing, unmatched |-> unmatched]

BrandZipReason == <<ReasonPart("Ignoring top-level brand ZIP file.", None, {}, <<>>)>>

UnknownBrandReason ==
    <<ReasonPart("Could not identify a known brand or asset type.", None, {}, <<>>)>>

\* mutant: `elif unmatched`, only the first reason found is given
Reasons_FirstOnly(asset_type, missing, unmatched) ==
    IF missing # {}
    THEN <<ReasonPart("Missing required variants for asset_type", asset_type, missing, <<>>)>>
    ELSE <<ReasonPart("Found unmatched parts", None, {}, unmatched)>>

\* Step 5: the reasons list of a file with missing groups or unmatched parts
Reasons(asset_type, missing, unmatched) ==
    (IF missing # {}
     THEN <<ReasonPart("Missing required variants for asset_type", asset_type, missing, <<>>)>>
     ELSE <<>>)
    \o
    (IF unmatched # <<>>
     THEN <<ReasonPart("Found unmatched parts", None, {}, unmatched)>>
     ELSE <<>>)

\* mutant: only the division is checked
Missing_DivisionOnly(asset_type, raw_variants) ==
    (REQUIRED_BY_ASSET_TYPE(asset_type) \cap {"division"}) \ DOMAIN raw_variants

\* required - set(raw_variants.keys())
Missing(asset_type, raw_variants) ==
    REQUIRED_BY_ASSET_TYPE(asset_type) \ DOMAIN raw_variants

\* mutant: `if missing`, unmatched parts are tolerated
Rejects_MissingOnly(missing, unmatched) == missing # {}

\* `if missing or unmatched`
Rejects(missing, unmatched) == missing # {} \/ unmatched # <<>>

\* Steps 3 to 5 for a file whose asset type is known: what the iteration appends
\* to parsed_files and to ignored_log
Validate(url, filename, asset_type, raw_variants0, remaining_parts) ==
    LET parsed == ParseParts(remaining_parts, asset_type, raw_variants0, <<>>)
        raw_variants == FillDefaults(asset_type, parsed.raw_variants)
        missing == Missing(asset_type, raw_variants)
        unmatched == IF asset_type = T_standard_logo
                        /\ <<"n","o","-","l","o","c","k","u","p">> (* no-lockup *) \in Range(remaining_parts)
                     THEN Append(parsed.unmatched, <<"n","o","-","l","o","c","k","u","p">> (* no-lockup *))
                     ELSE parsed.unmatched
    IN  IF Rejects(missing, unmatched)
        THEN [parsed |-> <<>>,
              ignored |-> <<[file |-> filename,
                             reason |-> Reasons(asset_type, missing, unmatched)]>>]
        ELSE [parsed |-> <<[url |-> url, raw_variants |-> raw_variants]>>,
              ignored |-> <<>>]

\* the file is logged as a top-level brand ZIP and skipped
IgnoreBrandZip(filename) ==
    [parsed |-> <<>>, ignored |-> <<[file |-> filename, reason |-> BrandZipReason]>>]

\* mutant: the file is skipped without a log entry
RejectUnknown_Silent(filename) == [parsed |-> <<>>, ignored |-> <<>>]

\* the file is logged as unidentified and skipped
RejectUnknown(filename) ==
    [parsed |-> <<>>, ignored |-> <<[file |-> filename, reason |-> UnknownBrandReason]>>]

\* filename, _ = os.path.splitext(os.path.basename(url))
Filename(url) == Splitext(Basename(url))[1]

\* one iteration of the loop over urls, with the table's dict keys as a parameter
ClassifyWith(keys, url) ==
    LET filename == Filename(url)
        parts_str == PartsStr(filename)
        brand_key == DetectBrand(parts_str, sorted_brand_keys(keys))
        asset_key_hint == AssetKeyHint(parts_str)
        asset_type == AssetType(asset_key_hint, brand_key)
    IN  IF filename \in Range(BRAND_CANON)
        THEN IgnoreBrandZip(filename)
        ELSE IF asset_type = None THEN RejectUnknown(filename)
        ELSE Validate(url, filename, asset_type,
                      WithDivision(asset_type, asset_key_hint, brand_key),
                      RemainingParts(parts_str, brand_key))

\* ASSET_TYPE_KEYS.keys()
AssetKeyList == [k \in DOMAIN ASSET_TYPE_KEYS |-> ASSET_TYPE_KEYS[k].key]

\* one iteration of the loop over urls
ClassifyFile(url) == ClassifyWith(AssetKeyList, url)

-----------------------------------------------------------------------------
(* group_and_finalize_logos                                                *)

\* tuple(sorted((k, v) for k, v in rv.items() if k != "modifier")): the items
\* without the modifier, in the one order the sort gives them
VariantKey(rv) == [g \in DOMAIN rv \ {"modifier"} |-> rv[g]]

\* the key of the links dict a file is stored under
FormatKey(url, rv) ==
    LET file_ext == Splitext(url)[2]
        ext_key == Strip(Lower(file_ext), ".")
    IN  IF Lower(file_ext) = <<".","z","i","p">> (* .zip *) THEN <<"a","l","l","-","f","o","r","m","a","t","s">> (* all-formats *)
        ELSE IF "modifier" \in DOMAIN rv /\ rv["modifier"] # <<>>
             THEN ext_key \o <<"_">> \o rv["modifier"]
             ELSE ext_key

\* position of key k in an insertion-ordered dict (a list of [k, v]), 0 when absent
IndexOf(dict, k) ==
    IF \E n \in DOMAIN dict : dict[n].k = k
    THEN CHOOSE n \in DOMAIN dict : dict[n].k = k
    ELSE 0

\* dict[k] = v: a present key keeps its position, a new key goes last
DictSet(dict, k, v) ==
    IF IndexOf(dict, k) # 0
    THEN [dict EXCEPT ![IndexOf(dict, k)] = [k |-> k, v |-> v]]
    ELSE Append(dict, [k |-> k, v |-> v])

\* dict[k] of a defaultdict(dict)
DictGet(dict, k) == IF IndexOf(dict, k) # 0 THEN dict[IndexOf(dict, k)].v ELSE <<>>

\* grouped_logos[variant_key][format_key] = file_data["url"]
StoreLink(grouped, file_data) ==
    LET rv == file_data.raw_variants
        variant_key == VariantKey(rv)
        format_key == FormatKey(file_data.url, rv)
    IN  DictSet(grouped, variant_key, DictSet(DictGet(grouped, variant_key),
                                              format_key, file_data.url))

\* x.get(name, '') of a logo object
GetOrEmpty(logo, name) == IF name \in DOMAIN logo THEN logo[name] ELSE <<>>

\* the sort key (x.get('asset_type', ''), x.get('division', '')), compared as a tuple
LogoLeq(a, b) ==
    LET a1 == GetOrEmpty(a.attrs, "asset_type")
        b1 == GetOrEmpty(b.attrs, "asset_type")
    IN  IF a1 # b1 THEN StrLeq(a1, b1)
        ELSE StrLeq(GetOrEmpty(a.attrs, "division"), GetOrEmpty(b.attrs, "division"))

\* insertion step of the stable sorted(): x goes behind every element <= x
RECURSIVE InsertLogo(_, _)
InsertLogo(sorted, x) ==
    IF sorted = <<>> THEN <<x>>
    ELSE IF LogoLeq(Head(sorted), x) THEN <<Head(sorted)>> \o InsertLogo(Tail(sorted), x)
    ELSE <<x>> \o sorted

\* sorted(logos_list, key=...)
RECURSIVE SortedLogos(_)
SortedLogos(list) ==
    IF list = <<>> THEN <<>>
    ELSE InsertLogo(SortedLogos(SubSeq(list, 1, Len(list) - 1)), list[Len(list)])

\* the logo objects in the order of grouped_logos.items(): dict(variant_tuple)
\* plus the "links" entry
LogoObjects(grouped) ==
    [n \in DOMAIN grouped |-> [attrs |-> grouped[n].k, links |-> grouped[n].v]]


-----------------------------------------------------------------------------
(* create_manifest                                                         *)

\* the characters of a group name, a literal dict key of the code
GroupStr(group) ==
    CASE group = "asset_type" -> <<"a","s","s","e","t","_","t","y","p","e">> (* asset_type *)
      [] group = "division" -> <<"d","i","v","i","s","i","o","n">> (* division *)
      [] group = "optical_size" -> <<"o","p","t","i","c","a","l","_","s","i","z","e">> (* optical_size *)
      [] group = "color" -> <<"c","o","l","o","r">> (* color *)
      [] group = "lockup" -> <<"l","o","c","k","u","p">> (* lockup *)
      [] group = "bar" -> <<"b","a","r">> (* bar *)
      [] group = "compact" -> <<"c","o","m","p","a","c","t">> (* compact *)
      [] group = "trademark" -> <<"t","r","a","d","e","m","a","r","k">> (* trademark *)
      [] group = "clearspace" -> <<"c","l","e","a","r","s","p","a","c","e">> (* clearspace *)
      [] group = "modifier" -> <<"m","o","d","i","f","i","e","r">> (* modifier *)

\* str.title(): a letter that follows no letter is upper-cased, every other one lower-cased
Title(s) ==
    LET UpperChar(c) ==
            IF \E k \in DOMAIN LowerCase : LowerCase[k] = c
            THEN UpperCase[CHOOSE k \in DOMAIN LowerCase : LowerCase[k] = c]
            ELSE c
    IN  [k \in DOMAIN s |->
            IF k = 1 \/ s[k - 1] \notin Range(UpperCase) \cup Range(LowerCase)
            THEN UpperChar(s[k])
            ELSE LowerChar(s[k])]

\* str(option): the values of the groups bar, compact, trademark and clearspace are
\* bools, every other value is a str
Str(group, option) ==
    IF group \in {"bar", "compact", "trademark", "clearspace"}
    THEN IF option THEN <<"T","r","u","e">> (* True *) ELSE <<"F","a","l","s","e">> (* False *)
    ELSE option

\* mutant: no group is excluded
IsExcluded_Nothing(group) == FALSE

\* the two `if group == "modifier": continue` of create_manifest
IsExcluded(group) == group = "modifier"

\* discovered after the first loop: group -> set of values
Discovered(files) ==
    LET groups == {g \in UNION {DOMAIN files[n].raw_variants : n \in DOMAIN files} :
                      ~IsExcluded(g)}
    IN  [g \in groups |->
            {files[n].raw_variants[g] :
                n \in {m \in DOMAIN files : g \in DOMAIN files[m].raw_variants}}]

\* all_defs in insertion order: the variant parts, the asset-type keys (no key is
\* in both tables) and the four names of the False booleans
all_defs ==
    VARIANT_PART_DEFINITIONS
    \o [k \in DOMAIN ASSET_TYPE_KEYS |->
           [key |-> ASSET_TYPE_KEYS[k].key,
            group |-> IF ASSET_TYPE_KEYS[k].type \in {T_standard_logo, T_korte_hoffmann_logotype}
                      THEN "division" ELSE "asset_type",
            hasValue |-> FALSE, value |-> None, name |-> ASSET_TYPE_KEYS[k].name]]
    \o << [key |-> <<"_","_","b","a","r","_","f","a","l","s","e","_","_">> (* __bar_false__ *), group |-> "bar", hasValue |-> TRUE, value |-> FALSE,
           name |-> <<"N","o"," ","B","a","r">> (* No Bar *)],
          [key |-> <<"_","_","t","m","_","f","a","l","s","e","_","_">> (* __tm_false__ *), group |-> "trademark", hasValue |-> TRUE, value |-> FALSE,
           name |-> <<"W","i","t","h","o","u","t"," ","®">> (* Without ® *)],
          [key |-> <<"_","_","c","s","_","f","a","l","s","e","_","_">> (* __cs_false__ *), group |-> "clearspace", hasValue |-> TRUE,
           value |-> FALSE, name |-> <<"W","i","t","h","o","u","t"," ","C","l","e","a","r","s","p","a","c","e">> (* Without Clearspace *)],
          [key |-> <<"_","_","k","h","c","_","f","a","l","s","e","_","_">> (* __khc_false__ *), group |-> "compact", hasValue |-> TRUE, value |-> FALSE,
           name |-> <<"N","o"," ","C","o","m","p","a","c","t">> (* No Compact *)] >>

\* the name of an option: that of the first definition of the group with the
\* option as its value, str(option) when there is none
OptionName(group, option) ==
    LET hits == {n \in DOMAIN all_defs :
                    /\ all_defs[n].group = group
                    /\ (IF all_defs[n].hasValue THEN all_defs[n].value ELSE all_defs[n].key)
                           = option}
    IN  IF hits = {} THEN Str(group, option)
        ELSE all_defs[CHOOSE n \in hits : \A m \in hits : n <= m].name

\* list(options): the elements of the set once each, in an iteration order that is
\* not fixed from one interpreter run to the next
Listings(options) ==
    {l \in [1..Cardinality(options) -> options] :
        \A a, b \in DOMAIN l : a # b => l[a] # l[b]}

\* mutant: the larger key goes first
RECURSIVE InsertByStr_Descending(_, _, _)
InsertByStr_Descending(group, sorted, x) ==
    IF sorted = <<>> THEN <<x>>
    ELSE IF StrLeq(Str(group, x), Str(group, Head(sorted)))
         THEN <<Head(sorted)>> \o InsertByStr_Descending(group, Tail(sorted), x)
         ELSE <<x>> \o sorted

\* insertion step of the stable sorted(key=str): x goes behind every element
\* whose key is <= its own
RECURSIVE InsertByStr(_, _, _)
InsertByStr(group, sorted, x) ==
    IF sorted = <<>> THEN <<x>>
    ELSE IF StrLeq(Str(group, Head(sorted)), Str(group, x))
         THEN <<Head(sorted)>> \o InsertByStr(group, Tail(sorted), x)
         ELSE <<x>> \o sorted

\* mutant: the options stay in the iteration order of the set
SortedByStr_AsListed(group, list) == list

\* sorted(list(options), key=lambda x: str(x))
RECURSIVE SortedByStr(_, _)
SortedByStr(group, list) ==
    IF list = <<>> THEN <<>>
    ELSE InsertByStr(group, SortedByStr(group, SubSeq(list, 1, Len(list) - 1)),
                     list[Len(list)])

\* the groups of discovered in the order of sorted(discovered.items())
RECURSIVE SortedGroups(_)
SortedGroups(groups) ==
    IF groups = {} THEN <<>>
    ELSE LET g == CHOOSE g \in groups :
                      \A h \in groups : StrLeq(GroupStr(g), GroupStr(h))
         IN  <<g>> \o SortedGroups(groups \ {g})

\* manifest[group] for one iteration order of the group's set of options
ManifestEntry(group, listing) ==
    LET options == SortedByStr(group, listing)
    IN  [group |-> group,
         name |-> Title(Replace(GroupStr(group), <<"_">>, <<" ">>)),
         options |-> [n \in DOMAIN options |->
                         [value |-> options[n], name |-> OptionName(group, options[n])]]]

\* the manifests create_manifest can return: one for every choice of the
\* iteration orders of the sets
create_manifest(files) ==
    LET discovered == Discovered(files)
        RECURSIVE Over(_)
        Over(groups) ==
            IF groups = <<>> THEN {<<>>}
            ELSE IF IsExcluded(Head(groups)) THEN Over(Tail(groups))
            ELSE {<<ManifestEntry(Head(groups), l)>> \o rest :
                     l \in Listings(discovered[Head(groups)]), rest \in Over(Tail(groups))}
    IN  Over(SortedGroups(DOMAIN discovered))
-----------------------------------------------------------------------------
(* The inputs: bounded sets of urls and url lists                          *)

MaxFiles == 2
MaxTokens == 3
MaxKeys == 2
MaxKeyLen == 2
MaxNameLen == 3

\* '_'.join of a head and a list of tokens
RECURSIVE JoinParts(_, _)
JoinParts(head, tokens) ==
    IF tokens = <<>> THEN head
    ELSE JoinParts(head \o <<"_">> \o Head(tokens), Tail(tokens))

\* all lists over S of at most n elements
ListsUpTo(S, n) == UNION {[1..m -> S] : m \in 0..n}

\* stems of single-file runs: a leading part followed by up to MaxTokens tokens
Heads == {
    <<"g","r","u","p","p","e","_","s","i","z","e","-","m">> (* gruppe_size-m *), <<"K","H","-","I","m","m","o","b","i","l","i","e","n","_","s","i","z","e","-","x","x","l">> (* KH-Immobilien_size-xxl *), <<"k","o","r","t","e","-","h","o","f","f","m","a","n","n","_","s","i","z","e","-","s">> (* korte-hoffmann_size-s *),
    <<"d","r","e","i","h","a","u","s","_","s","i","z","e","-","m">> (* dreihaus_size-m *), <<"g","r","u","p","p","e","_","f","a","v","i","c","o","n">> (* gruppe_favicon *), <<"b","l","a","c","k","_","f","a","v","i","c","o","n">> (* black_favicon *), <<"m","o","n","o","g","r","a","m">> (* monogram *),
    <<"m","y","s","t","e","r","y">> (* mystery *), <<"K","H","-","G","r","u","p","p","e">> (* KH-Gruppe *) }

TokenPool == { <<"l","e","f","t">> (* left *), <<"b","l","a","c","k">> (* black *), <<"w","h","i","t","e">> (* white *), <<"c","o","m","p","a","c","t">> (* compact *), <<"n","o","-","l","o","c","k","u","p">> (* no-lockup *), <<"f","o","o">> (* foo *) }

SingleUrls ==
    {<<"a","/">> (* a/ *) \o JoinParts(h, t) \o <<".","s","v","g">> (* .svg *) : h \in Heads, t \in ListsUpTo(TokenPool, MaxTokens)}

\* urls of batch runs: few stems, stored under several folders and formats
BatchStems == {
    <<"f","a","v","i","c","o","n","_","b","l","a","c","k">> (* favicon_black *), <<"f","a","v","i","c","o","n","_","b","l","a","c","k","_","r","g","b">> (* favicon_black_rgb *), <<"f","a","v","i","c","o","n","_","b","l","a","c","k","_","c","m","y","k">> (* favicon_black_cmyk *),
    <<"f","a","v","i","c","o","n","_","w","h","i","t","e","_","t","r","a","d","e","m","a","r","k">> (* favicon_white_trademark *), <<"f","a","v","i","c","o","n">> (* favicon *), <<"m","y","s","t","e","r","y","_","b","l","a","c","k">> (* mystery_black *) }

Places == { <<<<"a","/">> (* a/ *), <<".","s","v","g">> (* .svg *)>>, <<<<"b","/">> (* b/ *), <<".","S","V","G">> (* .SVG *)>>, <<<<"a","/">> (* a/ *), <<".","z","i","p">> (* .zip *)>> }

BatchUrls == {p[1] \o stem \o p[2] : stem \in BatchStems, p \in Places}

Inputs == ListsUpTo(BatchUrls, MaxFiles) \cup {<<u>> : u \in SingleUrls}

\* resolver study: tables of up to MaxKeys distinct keys, and stems
KeyChars == {"k", "h"}

NameChars == {"k", "h", "-"}

Words(chars, n) == UNION {[1..m -> chars] : m \in 1..n}

KeyTables ==
    {t \in ListsUpTo(Words(KeyChars, MaxKeyLen), MaxKeys) :
        \A a, b \in DOMAIN t : a # b => t[a] # t[b]}

-----------------------------------------------------------------------------
(* The batch pipeline of the main section                                  *)

Init ==
    /\ urls \in Inputs
    /\ pc = "parse"
    /\ i = 0
    /\ parsed_files = <<>>
    /\ ignored_log = <<>>
    /\ j = 0
    /\ grouped_logos = <<>>
    /\ logos_list = <<>>
    /\ manifest = None
    /\ run = 1
    /\ first = None
    /\ NamesIdle
    /\ SorterIdle
    /\ r_keys = AssetKeyList
    /\ r_name = <<>>
    /\ r_brand = None
    /\ r_pc = "off"

\* mutant: a rejected file ends the run, as an uncaught exception would
ParseStep_AbortsOnReject ==
    /\ pc = "parse"
    /\ i < Len(urls)
    /\ LET out == ClassifyFile(urls[i + 1])
       IN  /\ parsed_files' = parsed_files \o out.parsed
           /\ ignored_log' = ignored_log \o out.ignored
           /\ pc' = IF out.ignored # <<>> THEN "done" ELSE pc
    /\ i' = i + 1
    /\ UNCHANGED <<urls, j, grouped_logos, logos_list, manifest,
                   resolver_vars, rerun_vars, names_vars, sorter_vars>>

\* one iteration of `for url in urls`
ParseStep ==
    /\ pc = "parse"
    /\ i < Len(urls)
    /\ LET out == ClassifyFile(urls[i + 1])
       IN  /\ parsed_files' = parsed_files \o out.parsed
           /\ ignored_log' = ignored_log \o out.ignored
    /\ i' = i + 1
    /\ UNCHANGED <<urls, pc, j, grouped_logos, logos_list, manifest,
                   resolver_vars, rerun_vars, names_vars, sorter_vars>>

\* parse_and_validate_files returns; `if all_urls:` skips the run on an empty list
ParseReturn ==
    /\ pc = "parse"
    /\ i = Len(urls)
    /\ pc' = IF urls = <<>> THEN "done" ELSE "manifest"
    /\ UNCHANGED <<urls, i, parsed_files, ignored_log, j, grouped_logos, logos_list, manifest,
                   resolver_vars, rerun_vars, names_vars, sorter_vars>>

\* Phase 2: create_manifest(valid_files)
CreateManifest ==
    /\ pc = "manifest"
    /\ manifest' \in create_manifest(parsed_files)
    /\ pc' = "group"
    /\ UNCHANGED <<urls, i, parsed_files, ignored_log, j, grouped_logos, logos_list,
                   resolver_vars, rerun_vars, names_vars, sorter_vars>>

\* one iteration of `for file_data in parsed_files`
GroupStep ==
    /\ pc = "group"
    /\ j < Len(parsed_files)
    /\ grouped_logos' = StoreLink(grouped_logos, parsed_files[j + 1])
    /\ j' = j + 1
    /\ UNCHANGED <<urls, pc, i, parsed_files, ignored_log, logos_list, manifest,
                   resolver_vars, rerun_vars, names_vars, sorter_vars>>

\* the logo objects are built and sorted, group_and_finalize_logos returns
Finalize ==
    /\ pc = "group"
    /\ j = Len(parsed_files)
    /\ logos_list' = SortedLogos(LogoObjects(grouped_logos))
    /\ pc' = "done"
    /\ UNCHANGED <<urls, i, parsed_files, ignored_log, j, grouped_logos, manifest,
                   resolver_vars, rerun_vars, names_vars, sorter_vars>>

Next == ParseStep \/ ParseReturn \/ CreateManifest \/ GroupStep \/ Finalize

Spec == Init /\ [][Next]_vars

\* the control part of the five steps: a loop counter or the position advances
Advance ==
    \/ pc = "parse" /\ i < Len(urls) /\ i' = i + 1 /\ UNCHANGED <<pc, j>>
    \/ pc = "parse" /\ i = Len(urls) /\ pc' \in {"manifest", "done"} /\ UNCHANGED <<i, j>>
    \/ pc = "manifest" /\ pc' = "group" /\ UNCHANGED <<i, j>>
    \/ pc = "group" /\ j < Len(parsed_files) /\ j' = j + 1 /\ UNCHANGED <<pc, i>>
    \/ pc = "group" /\ j = Len(parsed_files) /\ pc' = "done" /\ UNCHANGED <<i, j>>

\* the script is one sequential run: while a loop has an element left or a
\* function has to return, the run goes on
FairSpec == Spec /\ WF_<<pc, i, j>>(Advance)

-----------------------------------------------------------------------------
(* The resolver on its own, over bounded key tables and stems              *)

InitResolver ==
    /\ r_keys \in KeyTables
    /\ r_name \in Words(NameChars, MaxNameLen)
    /\ r_brand = None
    /\ r_pc = "start"
    /\ urls = <<>>
    /\ pc = "off"
    /\ i = 0
    /\ parsed_files = <<>>
    /\ ignored_log = <<>>
    /\ j = 0
    /\ grouped_logos = <<>>
    /\ logos_list = <<>>
    /\ manifest = None
    /\ run = 1
    /\ first = None
    /\ NamesIdle
    /\ SorterIdle

\* Step 1 of the loop body on the stem r_name
Resolve ==
    /\ r_pc = "start"
    /\ r_brand' = DetectBrand(PartsStr(r_name), sorted_brand_keys(r_keys))
    /\ r_pc' = "resolved"
    /\ UNCHANGED <<urls, pc, i, parsed_files, ignored_log, j, grouped_logos, logos_list, manifest,
                   r_keys, r_name, rerun_vars, names_vars, sorter_vars>>

NextResolver == Resolve

SpecResolver == InitResolver /\ [][NextResolver]_vars


-----------------------------------------------------------------------------
(* The script run a second time on the same files                          *)

MaxCatalogFiles == 3

\* stems of the catalog runs: several asset types, files that differ in one attribute or
\* in the color mode only, and a file that is rejected
CatalogStems == {
    <<"g","r","u","p","p","e","_","l","e","f","t","_","b","l","a","c","k","_","s","i","z","e","-","m">> (* gruppe_left_black_size-m *), <<"g","r","u","p","p","e","_","l","e","f","t","_","b","l","a","c","k","_","s","i","z","e","-","m","_","c","m","y","k">> (* gruppe_left_black_size-m_cmyk *),
    <<"g","r","u","p","p","e","_","r","i","g","h","t","_","w","h","i","t","e","_","s","i","z","e","-","x","x","l","_","t","r","a","d","e","m","a","r","k">> (* gruppe_right_white_size-xxl_trademark *), <<"k","o","r","t","e","-","h","o","f","f","m","a","n","n","_","c","o","m","p","a","c","t","_","b","l","a","c","k","_","s","i","z","e","-","x","x","s","_","r","g","b">> (* korte-hoffmann_compact_black_size-xxs_rgb *),
    <<"m","y","s","t","e","r","y","_","b","l","a","c","k">> (* mystery_black *) }

\* lists of up to MaxCatalogFiles distinct urls
CatalogInputs ==
    {l \in ListsUpTo({<<"a","/">> (* a/ *) \o stem \o <<".","s","v","g">> (* .svg *) : stem \in CatalogStems}, MaxCatalogFiles) :
        \A a, b \in DOMAIN l : a # b => l[a] # l[b]}

\* the orders a list can be handed over in
Reorderings(list) ==
    {[n \in DOMAIN list |-> list[p[n]]] :
        p \in {q \in [DOMAIN list -> DOMAIN list] :
                  \A a, b \in DOMAIN list : a # b => q[a] # q[b]}}

InitCatalog ==
    /\ urls \in CatalogInputs
    /\ pc = "parse"
    /\ i = 0
    /\ parsed_files = <<>>
    /\ ignored_log = <<>>
    /\ j = 0
    /\ grouped_logos = <<>>
    /\ logos_list = <<>>
    /\ manifest = None
    /\ run = 1
    /\ first = None
    /\ NamesIdle
    /\ SorterIdle
    /\ r_keys = AssetKeyList
    /\ r_name = <<>>
    /\ r_brand = None
    /\ r_pc = "off"

\* the script is started again: the repository lists the same files, in the same or
\* in another order, and every variable of the script starts afresh
RunAgain ==
    /\ pc = "done"
    /\ run = 1
    /\ first' = [urls |-> urls, parsed_files |-> parsed_files, ignored_log |-> ignored_log,
                 manifest |-> manifest, logos_list |-> logos_list]
    /\ run' = 2
    /\ urls' \in Reorderings(urls)
    /\ pc' = "parse"
    /\ i' = 0
    /\ parsed_files' = <<>>
    /\ ignored_log' = <<>>
    /\ j' = 0
    /\ grouped_logos' = <<>>
    /\ logos_list' = <<>>
    /\ manifest' = None
    /\ UNCHANGED <<resolver_vars, names_vars, sorter_vars>>

NextCatalog == Next \/ RunAgain

SpecCatalog == InitCatalog /\ [][NextCatalog]_vars
-----------------------------------------------------------------------------
(* Vocabulary of the properties                                            *)

\* the url has a record in parsed_files
Accepted(url) == \E p \in DOMAIN parsed_files : parsed_files[p].url = url

\* the entries of ignored_log that name the file of the url
LogEntries(url) == {q \in DOMAIN ignored_log : ignored_log[q].file = Filename(url)}

Rejected(url) == LogEntries(url) # {}

\* the group a token stands for under an asset type, "" when it stands for none
AssignedGroup(t, asset_type) ==
    IF t \in {<<"c","o","m","p","a","c","t">> (* compact *), <<"n","o","-","c","o","m","p","a","c","t">> (* no-compact *)}
    THEN IF asset_type = T_standard_logo THEN "lockup"
         ELSE IF asset_type = T_korte_hoffmann_logotype THEN "compact"
         ELSE ""
    ELSE IF t \in VariantParts THEN Definition(t).group
    ELSE ""

\* what the loop body finds in a url, and what its tokens stand for:
\*   stem, brand, hint, type: the normalized stem, the brand key, the marker and
\*     the asset type;
\*   classified: the file reaches the token classifier;
\*   tokens: the non-empty parts behind the brand prefix;
\*   unknown: the tokens that are neither a vocabulary entry nor an asset-type key;
\*   duplicate: the groups that two different tokens both stand for;
\*   missing: the required groups that neither a token, the brand prefix nor a
\*     default provides
Facts(url) ==
    LET stem == PartsStr(Filename(url))
        brand == DetectBrand(stem, sorted_brand_keys(AssetKeyList))
        hint == AssetKeyHint(stem)
        type == AssetType(hint, brand)
        tokens == SelectSeq(RemainingParts(stem, brand), LAMBDA t : t # <<>>)
        groups == [a \in DOMAIN tokens |-> AssignedGroup(tokens[a], type)]
    IN  [stem |-> stem, brand |-> brand, hint |-> hint, type |-> type,
         classified |-> Filename(url) \notin Range(BRAND_CANON) /\ type # None,
         tokens |-> tokens,
         unknown |-> {t \in Range(tokens) : t \notin VariantParts /\ t \notin AssetKeys},
         duplicate |-> {g \in Range(groups) \ {""} :
                           \E a, b \in DOMAIN tokens :
                               tokens[a] # tokens[b] /\ groups[a] = g /\ groups[b] = g},
         missing |-> {g \in REQUIRED_BY_ASSET_TYPE(type) :
                         IF g = "division" THEN brand = None
                         ELSE IF g = "compact" THEN FALSE
                         ELSE g \notin Range(groups)}]

\* Facts of every url of the inputs
FactsOf == [u \in BatchUrls \cup SingleUrls |-> Facts(u)]

StemOf(url) == FactsOf[url].stem

Classified(url) == FactsOf[url].classified

UnknownTokens(url) == FactsOf[url].unknown

DuplicateGroups(url) == FactsOf[url].duplicate

MissingGroups(url) == FactsOf[url].missing

\* the url is the locator of some slot of some Variant
Held(url) ==
    \/ \E n \in DOMAIN grouped_logos : \E m \in DOMAIN grouped_logos[n].v :
           grouped_logos[n].v[m].v = url
    \/ \E n \in DOMAIN logos_list : \E m \in DOMAIN logos_list[n].links :
           logos_list[n].links[m].v = url

\* two attribute sets are equal when the color-mode modifier is ignored
EqualIgnoringMode(rv1, rv2) ==
    /\ DOMAIN rv1 \ {"modifier"} = DOMAIN rv2 \ {"modifier"}
    /\ \A g \in DOMAIN rv1 \ {"modifier"} : rv1[g] = rv2[g]

\* the attributes of a Variant are those of the record without the modifier
AttrsMatch(attrs, rv) ==
    /\ DOMAIN attrs = DOMAIN rv \ {"modifier"}
    /\ \A g \in DOMAIN attrs : attrs[g] = rv[g]

ModeOf(rv) == IF "modifier" \in DOMAIN rv THEN rv["modifier"] ELSE None

\* the file format of a locator: its lowercased extension
ExtOf(url) == Lower(Splitext(url)[2])

\* records p and q of parsed_files differ only in format or color mode, and no
\* third record has the same attributes
LonePair(p, q) ==
    /\ p # q
    /\ EqualIgnoringMode(parsed_files[p].raw_variants, parsed_files[q].raw_variants)
    /\ \/ ExtOf(parsed_files[p].url) # ExtOf(parsed_files[q].url)
       \/ ModeOf(parsed_files[p].raw_variants) # ModeOf(parsed_files[q].raw_variants)
    /\ \A r \in DOMAIN parsed_files \ {p, q} :
           ~EqualIgnoringMode(parsed_files[r].raw_variants, parsed_files[p].raw_variants)

\* records p and q have one Variant to themselves, with a slot each
TwoSlots(p, q) ==
    \E n \in DOMAIN logos_list :
        /\ AttrsMatch(logos_list[n].attrs, parsed_files[p].raw_variants)
        /\ Len(logos_list[n].links) = 2
        /\ {logos_list[n].links[m].v : m \in DOMAIN logos_list[n].links}
               = {parsed_files[p].url, parsed_files[q].url}
        /\ logos_list[n].links[1].k # logos_list[n].links[2].k

\* every accepted record has exactly one Variant, the one with its attributes, and
\* every locator of a Variant belongs to a record with the Variant's attributes
OneVariantPerAttributeSet ==
    /\ \A p \in DOMAIN parsed_files :
           Cardinality({n \in DOMAIN logos_list :
               AttrsMatch(logos_list[n].attrs, parsed_files[p].raw_variants)}) = 1
    /\ \A n \in DOMAIN logos_list : \A m \in DOMAIN logos_list[n].links :
           \E p \in DOMAIN parsed_files :
               /\ parsed_files[p].url = logos_list[n].links[m].v
               /\ AttrsMatch(logos_list[n].attrs, parsed_files[p].raw_variants)

-----------------------------------------------------------------------------
(* The properties                                                          *)

\* C1: every file the loop has consumed has exactly one outcome, a record in
\* parsed_files or an entry in ignored_log, never both and never neither, so the
\* two lists together are as long as the consumed part of the input.
C1_ExactlyOneOutcomePerFile ==
    /\ Len(parsed_files) + Len(ignored_log) = i
    /\ pc \in {"group", "done"} => i = Len(urls)
    /\ \A k \in 1..i :
           LET fn == Filename(urls[k])
               same == {m \in 1..i : Filename(urls[m]) = fn}
               recs == {p \in DOMAIN parsed_files : Filename(parsed_files[p].url) = fn}
           IN  /\ Accepted(urls[k]) # Rejected(urls[k])
               /\ Cardinality(recs) + Cardinality(LogEntries(urls[k])) = Cardinality(same)

\* a finished batch with one accepted and one rejected file
C1_Witness ==
    pc = "done" /\ i = 2 /\ Len(parsed_files) = 1 /\ Len(ignored_log) = 1

\* C2: every accepted record carries every group its asset type requires.
C2_AcceptedCarryRequiredGroups ==
    \A p \in DOMAIN parsed_files :
        REQUIRED_BY_ASSET_TYPE(parsed_files[p].raw_variants["asset_type"])
            \subseteq DOMAIN parsed_files[p].raw_variants

\* an accepted standard logo and an accepted Korte-Hoffmann logotype exist
C2_Witness ==
    /\ pc = "done"
    /\ \E p \in DOMAIN parsed_files :
           parsed_files[p].raw_variants["asset_type"]
               \in {T_standard_logo, T_korte_hoffmann_logotype}

\* C3: a file in which two different tokens stand for the same attribute group
\* is not accepted.
C3_DuplicateGroupRejected ==
    \A k \in 1..i :
        (Classified(urls[k]) /\ DuplicateGroups(urls[k]) # {}) => ~Accepted(urls[k])

\* C4: the resolver returns a brand key that is a prefix of the normalized stem
\* and at least as long as every other brand key that is a prefix of it, and
\* None only when no brand key is a prefix.
C4_LongestBrandKeyWins ==
    r_pc = "resolved" =>
        LET matching == {a \in Range(r_keys) \ {T_favicon, T_monogram} :
                            StartsWith(PartsStr(r_name), a)}
        IN  IF matching = {} THEN r_brand = None
            ELSE r_brand \in matching /\ \A a \in matching : Len(a) <= Len(r_brand)

\* two keys are prefixes of the stem and the table lists the shorter one first
C4_Witness ==
    /\ r_pc = "resolved"
    /\ \E a, b \in DOMAIN r_keys :
           /\ a < b
           /\ Len(r_keys[a]) < Len(r_keys[b])
           /\ StartsWith(PartsStr(r_name), r_keys[a])
           /\ StartsWith(PartsStr(r_name), r_keys[b])
           /\ r_brand = r_keys[b]

\* the normalized stem starts with none of the keys of ASSET_TYPE_KEYS
NoKeyPrefix(url) == \A a \in AssetKeys : ~StartsWith(StemOf(url), a)

\* the file is rejected as unrecognized, once per occurrence, and is in no Variant
RejectedAsUnknown(url) ==
    /\ ~Accepted(url)
    /\ Cardinality(LogEntries(url))
           = Cardinality({m \in 1..i : Filename(urls[m]) = Filename(url)})
    /\ \A q \in LogEntries(url) : ignored_log[q].reason = UnknownBrandReason
    /\ ~Held(url)

\* C5: a file whose stem starts with none of the known brand/asset keys is
\* rejected as unrecognized, with one entry, no accepted record and no Variant.
C5_NoKeyPrefixRejected ==
    \A k \in 1..i : NoKeyPrefix(urls[k]) => RejectedAsUnknown(urls[k])

\* C6: records are in the same Variant exactly when their attributes
\* are equal up to the modifier, and two records that differ only in format or
\* color mode have distinct slots of one Variant.
C6_SameVariantDistinctSlots ==
    pc = "done" =>
        /\ OneVariantPerAttributeSet
        /\ \A p, q \in DOMAIN parsed_files : LonePair(p, q) => TwoSlots(p, q)

\* C7: a locator that the Grouper has stored is still the locator of its slot,
\* or its replacement is reported in the log the script prints.
C7_ReplacementReported ==
    \A p \in 1..j : Held(parsed_files[p].url) \/ Rejected(parsed_files[p].url)

\* C8: the entry of a file that misses required groups and has unmatched tokens
\* gives both reasons: the missing groups and the unmatched tokens.
C8_AllReasonsListed ==
    \A k \in 1..i :
        (Classified(urls[k]) /\ MissingGroups(urls[k]) # {} /\ UnknownTokens(urls[k]) # {})
        => /\ Rejected(urls[k])
           /\ \A q \in LogEntries(urls[k]) :
                  /\ \E x \in Range(ignored_log[q].reason) :
                         /\ x.kind = "Missing required variants for asset_type"
                         /\ x.missing = MissingGroups(urls[k])
                  /\ \E y \in Range(ignored_log[q].reason) :
                         /\ y.kind = "Found unmatched parts"
                         /\ UnknownTokens(urls[k]) \subseteq Range(y.unmatched)

\* a consumed file misses a required group and has an unmatched token
C8_Witness ==
    \E k \in 1..i :
        Classified(urls[k]) /\ MissingGroups(urls[k]) # {} /\ UnknownTokens(urls[k]) # {}

\* C9: a file with a token that is neither a vocabulary entry nor an asset-type
\* key is not accepted, and when the token classifier ran on it, its entry lists
\* the token as unmatched.
C9_UnknownTokenRejected ==
    \A k \in 1..i :
        UnknownTokens(urls[k]) # {}
        => /\ ~Accepted(urls[k])
           /\ Rejected(urls[k])
           /\ Classified(urls[k]) =>
                  \A q \in LogEntries(urls[k]) :
                      \E y \in Range(ignored_log[q].reason) :
                          /\ y.kind = "Found unmatched parts"
                          /\ UnknownTokens(urls[k]) \subseteq Range(y.unmatched)

\* a consumed file has every required group and one unknown token
C9_Witness ==
    \E k \in 1..i :
        Classified(urls[k]) /\ MissingGroups(urls[k]) = {} /\ UnknownTokens(urls[k]) # {}

\* C10: the run ends, and at its end every file of the input list has its
\* outcome, the files behind a rejected file included.
C10_BatchCompletes ==
    <>(/\ pc = "done"
       /\ i = Len(urls)
       /\ \A k \in 1..Len(urls) : Accepted(urls[k]) \/ Rejected(urls[k]))

\* a file was accepted after an earlier file of the list was rejected
C10_Witness ==
    /\ pc = "done"
    /\ \E k, m \in 1..i : k < m /\ Rejected(urls[k]) /\ Accepted(urls[m])

-----------------------------------------------------------------------------
(* Claims about the manifest and about repeated runs                       *)

\* an option list of at least two options is in the manifest
SeveralOptions == \E n \in DOMAIN manifest : Len(manifest[n].options) >= 2

\* C11: run twice on the same list of files, the pipeline produces the same
\* classification (accepted files and log), the same manifest and the same grouping
C11_SameInputsSameOutputs ==
    (run = 2 /\ urls = first.urls) =>
        /\ pc \in {"manifest", "group", "done"} =>
               parsed_files = first.parsed_files /\ ignored_log = first.ignored_log
        /\ pc \in {"group", "done"} => manifest = first.manifest
        /\ pc = "done" => logos_list = first.logos_list

C11_Witness ==
    /\ run = 2
    /\ pc = "done"
    /\ urls = first.urls
    /\ SeveralOptions
    /\ Len(logos_list) >= 2
    /\ ignored_log # <<>>

\* C12: every option list of the manifest holds no value twice and is ordered by
\* str(value), and a run on the same files in another order builds the same manifest
C12_OptionListsCanonical ==
    pc \in {"group", "done"} =>
        /\ \A n \in DOMAIN manifest :
               LET g == manifest[n].group
                   o == manifest[n].options
               IN  /\ \A a, b \in DOMAIN o : a # b => o[a].value # o[b].value
                   /\ \A a \in 1..(Len(o) - 1) :
                          StrLeq(Str(g, o[a].value), Str(g, o[a + 1].value))
        /\ run = 2 =>
               /\ Len(manifest) = Len(first.manifest)
               /\ \A n \in DOMAIN manifest :
                      /\ manifest[n].group = first.manifest[n].group
                      /\ manifest[n] = first.manifest[n]

C12_Witness ==
    /\ run = 2
    /\ pc = "done"
    /\ urls # first.urls
    /\ Len(parsed_files) >= 2
    /\ SeveralOptions

\* the attribute sets of a variant list, in the order of the list
AttrsOf(list) == [n \in DOMAIN list |-> list[n].attrs]

\* C13: the variant list holds the same variants in the same sequence for any
\* order of the same input files
C13_VariantListOrderIndependent ==
    (run = 2 /\ pc = "done") => AttrsOf(logos_list) = AttrsOf(first.logos_list)

\* C14: whatever files are accepted, the manifest has no entry for the group
\* 'modifier'
C14_ModifierNotInManifest ==
    pc \in {"group", "done"} => \A n \in DOMAIN manifest : manifest[n].group # "modifier"

C14_Witness ==
    /\ pc = "done"
    /\ \E n \in DOMAIN parsed_files : "modifier" \in DOMAIN parsed_files[n].raw_variants
    /\ \E n \in DOMAIN logos_list : \E k \in DOMAIN logos_list[n].links :
           logos_list[n].links[k].k = <<"s","v","g","_","c","m","y","k">> (* svg_cmyk *)
    /\ manifest # <<>>

-----------------------------------------------------------------------------
(* Logo/sort-logos.py: the canon, normalisation and token parsing          *)
(*                                                                         *)
(* A value of type bool | None is one of the strings "True", "False" and   *)
(* "None"; a value of type str | None is a str or None. BRAND_CANON is the *)
(* same list as in github-linkfetch.py.                                    *)

DIVISIONS_WITH_LOCKUPS ==
    { <<"K","H","-","A","r","c","h","i","t","e","k","t","e","n","+","I","n","g","e","n","i","e","u","r","e">> (* KH-Architekten+Ingenieure *), <<"K","H","-","G","e","b","a","e","u","d","e","d","r","u","c","k">> (* KH-Gebaeudedruck *), <<"K","H","-","I","m","m","o","b","i","l","i","e","n">> (* KH-Immobilien *), <<"K","H","-","G","r","u","p","p","e">> (* KH-Gruppe *) }

LOCKUP_CANON == << <<"l","e","f","t">> (* left *), <<"r","i","g","h","t">> (* right *), <<"c","e","n","t","e","r">> (* center *), <<"c","e","n","t","e","r","-","c","o","m","p","a","c","t">> (* center-compact *) >>

SIZE_CANON == << <<"x","x","l">> (* xxl *), <<"m">> (* m *), <<"x","x","s">> (* xxs *) >>

COLOR_CANON == << <<"w","h","i","t","e">> (* white *), <<"b","l","a","c","k">> (* black *), <<"w","h","i","t","e","+","a","c","c","e","n","t">> (* white+accent *), <<"b","l","a","c","k","+","a","c","c","e","n","t">> (* black+accent *) >>

ALLOWED_EXTS == { <<".","j","p","g">> (* .jpg *), <<".","p","n","g">> (* .png *), <<".","s","v","g">> (* .svg *), <<".","p","d","f">> (* .pdf *) }

\* the dict in insertion order
UMLAUT_MAP == <<
    <<"ä", <<"a","e">> (* ae *)>>, <<"Ä", <<"a","e">> (* ae *)>>, <<"ö", <<"o","e">> (* oe *)>>, <<"Ö", <<"o","e">> (* oe *)>>,
    <<"ü", <<"u","e">> (* ue *)>>, <<"Ü", <<"u","e">> (* ue *)>>, <<"ß", <<"s","s">> (* ss *)>> >>

\* length of the match of architekten\s*\+\s*ingenieure at the start of s, 0 when
\* there is none; the whitespace of the model is the blank
MatchAI(s) ==
    IF ~StartsWith(s, <<"a","r","c","h","i","t","e","k","t","e","n">> (* architekten *)) THEN 0
    ELSE LET a == LStrip(Drop(s, 11), " ")
         IN  IF a = <<>> \/ Head(a) # "+" THEN 0
             ELSE LET b == LStrip(Tail(a), " ")
                  IN  IF StartsWith(b, <<"i","n","g","e","n","i","e","u","r","e">> (* ingenieure *)) THEN Len(s) - Len(b) + 10 ELSE 0

\* normalize_stem
normalize_stem(stem) ==
    LET RECURSIVE DeUmlaut(_, _)
        DeUmlaut(s, k) ==
            IF k > Len(UMLAUT_MAP) THEN s
            ELSE DeUmlaut(Replace(s, <<UMLAUT_MAP[k][1]>>, UMLAUT_MAP[k][2]), k + 1)
        RECURSIVE SubAI(_)
        SubAI(s) ==
            IF s = <<>> THEN <<>>
            ELSE IF MatchAI(Lower(s)) > 0
                 THEN <<"a","r","c","h","i","t","e","k","t","e","n","+","i","n","g","e","n","i","e","u","r","e">> (* architekten+ingenieure *) \o SubAI(Drop(s, MatchAI(Lower(s))))
                 ELSE <<Head(s)>> \o SubAI(Tail(s))
        \* re.sub of every run of at least min characters c by "-"
        RECURSIVE SubRuns(_, _, _)
        SubRuns(s, c, min) ==
            IF s = <<>> THEN <<>>
            ELSE IF Head(s) # c THEN <<Head(s)>> \o SubRuns(Tail(s), c, min)
            ELSE LET length == Len(s) - Len(LStrip(s, c))
                 IN  (IF length >= min THEN <<"-">> ELSE SubSeq(s, 1, length))
                     \o SubRuns(Drop(s, length), c, min)
        name == Lower(SubAI(Strip(DeUmlaut(stem, 1), " ")))
    IN  SubRuns(SubRuns(name, " ", 1), "-", 2)

\* detect_brand_from_name
detect_brand_from_name(name) ==
    LET n == Lower(name)
        AnyOf(keys) == \E k \in keys : Contains(n, k)
    IN  IF Contains(n, <<"d","r","e","i","h","a","u","s">> (* dreihaus *)) THEN <<"K","H","-","G","e","b","a","e","u","d","e","d","r","u","c","k">> (* KH-Gebaeudedruck *)
        ELSE IF AnyOf({ <<"g","e","b","a","e","u","d","e","d","r","u","c","k">> (* gebaeudedruck *), <<"g","e","b","ä","u","d","e","d","r","u","c","k">> (* gebäudedruck *), <<"g","e","b","a","u","u","d","e","d","r","u","c","k">> (* gebauudedruck *) })
        THEN <<"K","H","-","G","e","b","a","e","u","d","e","d","r","u","c","k">> (* KH-Gebaeudedruck *)
        ELSE IF Contains(n, <<"i","m","m","o","b","i","l","i","e","n">> (* immobilien *)) THEN <<"K","H","-","I","m","m","o","b","i","l","i","e","n">> (* KH-Immobilien *)
        ELSE IF \E k \in DOMAIN n : MatchAI(Drop(n, k - 1)) > 0 THEN <<"K","H","-","A","r","c","h","i","t","e","k","t","e","n","+","I","n","g","e","n","i","e","u","r","e">> (* KH-Architekten+Ingenieure *)
        ELSE IF Contains(n, <<"g","r","u","p","p","e">> (* gruppe *)) \/ Contains(n, <<"g","r","o","u","p">> (* group *)) THEN <<"K","H","-","G","r","u","p","p","e">> (* KH-Gruppe *)
        ELSE IF AnyOf({ <<"k","o","r","t","e","-","h","o","f","f","m","a","n","n">> (* korte-hoffmann *), <<"k","o","r","t","e"," ","h","o","f","f","m","a","n","n">> (* korte hoffmann *), <<"k","o","r","t","e","_","h","o","f","f","m","a","n","n">> (* korte_hoffmann *),
                      <<"k","o","r","t","e","h","o","f","f","m","a","n","n">> (* kortehoffmann *), <<"k","o","r","t","e","h","o","f","f","m","a","n">> (* kortehoffman *), <<"k","o","r","t","e","-","h","o","f","f","m","a","n">> (* korte-hoffman *) })
        THEN <<"K","O","R","T","E","-","H","O","F","F","M","A","N","N">> (* KORTE-HOFFMANN *)
        ELSE None

\* parse_tokens_full
parse_tokens_full(name_no_ext) ==
    LET parts == Split(name_no_ext, "_")
        tokens == Range(Tail(parts))
        \* the positive token without the negative one, the negative token, neither
        Flag(positive, negative) ==
            IF positive \in tokens /\ negative \notin tokens THEN "True"
            ELSE IF negative \in tokens THEN "False"
            ELSE "None"
        \* the first entry of a canon list that is among the tokens
        FirstOf(canon) ==
            LET hits == {k \in DOMAIN canon : canon[k] \in tokens}
            IN  IF hits = {} THEN None ELSE canon[CHOOSE k \in hits : \A m \in hits : k <= m]
        sized == {k \in DOMAIN parts : /\ StartsWith(parts[k], <<"s","i","z","e","-">> (* size- *))
                                       /\ Drop(parts[k], 5) \in Range(SIZE_CANON)}
    IN  [slug |-> parts[1],
         lockup |-> FirstOf(LOCKUP_CANON),
         bar |-> Flag(<<"b","a","r">> (* bar *), <<"n","o","-","b","a","r">> (* no-bar *)),
         size |-> IF sized = {} THEN None
                  ELSE Drop(parts[CHOOSE k \in sized : \A m \in sized : k <= m], 5),
         trademark |-> Flag(<<"t","r","a","d","e","m","a","r","k">> (* trademark *), <<"n","o","-","t","r","a","d","e","m","a","r","k">> (* no-trademark *)),
         clearspace |-> Flag(<<"c","l","e","a","r","s","p","a","c","e">> (* clearspace *), <<"n","o","-","c","l","e","a","r","s","p","a","c","e">> (* no-clearspace *)),
         color |-> FirstOf(COLOR_CANON),
         mode |-> IF <<"r","g","b">> (* rgb *) \in tokens THEN <<"r","g","b">> (* rgb *)
                  ELSE IF <<"c","m","y","k">> (* cmyk *) \in tokens THEN <<"c","m","y","k">> (* cmyk *) ELSE None,
         kh_compact |-> Flag(<<"c","o","m","p","a","c","t">> (* compact *), <<"n","o","-","c","o","m","p","a","c","t">> (* no-compact *)),
         legacy_compact |-> <<"c","o","m","p","a","c","t">> (* compact *) \in tokens,
         legacy_no_compact |-> <<"n","o","-","c","o","m","p","a","c","t">> (* no-compact *) \in tokens,
         dreihaus |-> Contains(name_no_ext, <<"d","r","e","i","h","a","u","s">> (* dreihaus *))]

\* the legacy compact mapping and the defaults the two loops apply to the parsed
\* tokens of a file of the given brand
WithDefaults(brand, tokens) ==
    LET Default(v) == IF v = "None" THEN "False" ELSE v
    IN  [tokens EXCEPT
            !.lockup = IF brand \in DIVISIONS_WITH_LOCKUPS /\ ~tokens.dreihaus /\ @ = None
                       THEN IF tokens.legacy_compact THEN <<"c","e","n","t","e","r","-","c","o","m","p","a","c","t">> (* center-compact *)
                            ELSE IF tokens.legacy_no_compact THEN <<"c","e","n","t","e","r">> (* center *) ELSE @
                       ELSE @,
            !.size = IF @ = None THEN <<"m">> (* m *) ELSE @,
            !.trademark = Default(@),
            !.clearspace = Default(@),
            !.bar = Default(@),
            !.kh_compact = IF brand = <<"K","O","R","T","E","-","H","O","F","F","M","A","N","N">> (* KORTE-HOFFMANN *) THEN Default(@) ELSE @]

\* `x or default` for a str | None
Or(x, default) == IF x = None THEN default ELSE x

\* mutant: a false flag is written as its no- token
NameFlag_Negative(flag, token) ==
    IF flag = "True" THEN <<token>> ELSE << <<"n","o","-">> (* no- *) \o token >>

\* the token of a flag in the filename: present only when the flag is True
NameFlag(flag, token) == IF flag = "True" THEN <<token>> ELSE <<>>

\* mutant: the flags are left out of the name
build_new_filename_NoFlags(brand, tokens) ==
    JoinParts(tokens.slug,
              << Or(tokens.color, <<"b","l","a","c","k">> (* black *)), <<"s","i","z","e","-">> (* size- *) \o Or(tokens.size, <<"m">> (* m *)),
                 Or(tokens.mode, <<"r","g","b">> (* rgb *)) >>)

\* build_new_filename
build_new_filename(brand, tokens) ==
    LET schema == IF brand \in DIVISIONS_WITH_LOCKUPS /\ ~tokens.dreihaus
                  THEN << IF tokens.lockup \in Range(LOCKUP_CANON)
                          THEN tokens.lockup ELSE <<"c","e","n","t","e","r">> (* center *) >>
                       \o NameFlag(tokens.bar, <<"b","a","r">> (* bar *))
                  ELSE IF brand = <<"K","O","R","T","E","-","H","O","F","F","M","A","N","N">> (* KORTE-HOFFMANN *)
                  THEN NameFlag(tokens.kh_compact, <<"c","o","m","p","a","c","t">> (* compact *))
                  ELSE <<>>
    IN  JoinParts(tokens.slug,
                  schema
                  \o << Or(tokens.color, <<"b","l","a","c","k">> (* black *)), <<"s","i","z","e","-">> (* size- *) \o Or(tokens.size, <<"m">> (* m *)) >>
                  \o NameFlag(tokens.trademark, <<"t","r","a","d","e","m","a","r","k">> (* trademark *))
                  \o NameFlag(tokens.clearspace, <<"c","l","e","a","r","s","p","a","c","e">> (* clearspace *))
                  \o << Or(tokens.mode, <<"r","g","b">> (* rgb *)) >>)

\* os.path.join of relative components
RECURSIVE PathJoin(_)
PathJoin(parts) ==
    IF Len(parts) = 1 THEN parts[1]
    ELSE PathJoin(SubSeq(parts, 1, Len(parts) - 1)) \o <<"/">> \o parts[Len(parts)]

\* mutant: every file goes into the folders of the divisions with lockups
dest_path_for_LockupsOnly(brand_root, brand, tokens) ==
    PathJoin(<<brand_root,
               IF tokens.lockup \in Range(LOCKUP_CANON) THEN tokens.lockup ELSE <<"c","e","n","t","e","r">> (* center *),
               IF tokens.bar = "True" THEN <<"b","a","r">> (* bar *) ELSE <<"n","o","-","b","a","r">> (* no-bar *),
               <<"s","i","z","e","-">> (* size- *) \o Or(tokens.size, <<"m">> (* m *)),
               IF tokens.trademark = "True" THEN <<"t","r","a","d","e","m","a","r","k">> (* trademark *) ELSE <<"n","o","-","t","r","a","d","e","m","a","r","k">> (* no-trademark *),
               IF tokens.clearspace = "True" THEN <<"c","l","e","a","r","s","p","a","c","e">> (* clearspace *) ELSE <<"n","o","-","c","l","e","a","r","s","p","a","c","e">> (* no-clearspace *)>>)

\* dest_path_for
dest_path_for(brand_root, brand, tokens) ==
    LET size_dir == <<"s","i","z","e","-">> (* size- *) \o Or(tokens.size, <<"m">> (* m *))
        tm_dir == IF tokens.trademark = "True" THEN <<"t","r","a","d","e","m","a","r","k">> (* trademark *) ELSE <<"n","o","-","t","r","a","d","e","m","a","r","k">> (* no-trademark *)
        cs_dir == IF tokens.clearspace = "True" THEN <<"c","l","e","a","r","s","p","a","c","e">> (* clearspace *) ELSE <<"n","o","-","c","l","e","a","r","s","p","a","c","e">> (* no-clearspace *)
    IN  IF brand = <<"K","H","-","G","e","b","a","e","u","d","e","d","r","u","c","k">> (* KH-Gebaeudedruck *) /\ tokens.dreihaus
        THEN PathJoin(<<brand_root, <<"D","R","E","I","H","A","U","S">> (* DREIHAUS *), size_dir, tm_dir, cs_dir>>)
        ELSE IF brand = <<"K","O","R","T","E","-","H","O","F","F","M","A","N","N">> (* KORTE-HOFFMANN *)
        THEN PathJoin(<<brand_root,
                        IF tokens.kh_compact = "True" THEN <<"c","o","m","p","a","c","t">> (* compact *) ELSE <<"n","o","-","c","o","m","p","a","c","t">> (* no-compact *),
                        size_dir, tm_dir, cs_dir>>)
        ELSE PathJoin(<<brand_root,
                        IF tokens.lockup \in Range(LOCKUP_CANON)
                        THEN tokens.lockup ELSE <<"c","e","n","t","e","r">> (* center *),
                        IF tokens.bar = "True" THEN <<"b","a","r">> (* bar *) ELSE <<"n","o","-","b","a","r">> (* no-bar *),
                        size_dir, tm_dir, cs_dir>>)

-----------------------------------------------------------------------------
(* The naming of one file: classified, synthesized, classified again       *)

MaxNameTokens == 2

\* stems as found in .sort: a first part and up to MaxNameTokens tokens
NameStems ==
    LET slugs == { <<"K","H","-","G","r","u","p","p","e">> (* KH-Gruppe *), <<"k","h","-","i","m","m","o","b","i","l","i","e","n">> (* kh-immobilien *), <<"k","o","r","t","e","-","h","o","f","f","m","a","n","n">> (* korte-hoffmann *), <<"d","r","e","i","h","a","u","s">> (* dreihaus *),
                   <<"l","o","g","o">> (* logo *), <<"K","H"," ","G","e","b","a","e","u","d","e","d","r","u","c","k">> (* KH Gebaeudedruck *) }
        pool == { <<"l","e","f","t">> (* left *), <<"b","a","r">> (* bar *), <<"n","o","-","b","a","r">> (* no-bar *), <<"c","o","m","p","a","c","t">> (* compact *), <<"n","o","-","c","o","m","p","a","c","t">> (* no-compact *), <<"t","r","a","d","e","m","a","r","k">> (* trademark *),
                  <<"c","l","e","a","r","s","p","a","c","e">> (* clearspace *), <<"s","i","z","e","-","x","x","s">> (* size-xxs *), <<"d","r","e","i","h","a","u","s">> (* dreihaus *), <<"g","r","u","p","p","e">> (* gruppe *) }
    IN  {JoinParts(slug, t) : slug \in slugs, t \in ListsUpTo(pool, MaxNameTokens)}

InitNames ==
    /\ n_pc = "start"
    /\ n_stem \in NameStems
    /\ n_brand = None
    /\ n_tokens = None
    /\ n_subdir = None
    /\ n_new_base = None
    /\ n_again = None
    /\ urls = <<>>
    /\ pc = "off"
    /\ i = 0
    /\ parsed_files = <<>>
    /\ ignored_log = <<>>
    /\ j = 0
    /\ grouped_logos = <<>>
    /\ logos_list = <<>>
    /\ manifest = None
    /\ run = 1
    /\ first = None
    /\ r_keys = AssetKeyList
    /\ r_name = <<>>
    /\ r_brand = None
    /\ r_pc = "off"
    /\ SorterIdle

\* sort_from_dot_sort on one file: the stem is normalised, parsed and given its
\* brand and defaults; a file without a brand is skipped
ClassifyName ==
    /\ n_pc = "start"
    /\ LET stem == normalize_stem(n_stem)
           brand == detect_brand_from_name(stem)
       IN  IF brand = None
           THEN /\ n_pc' = "skipped"
                /\ UNCHANGED <<n_brand, n_tokens>>
           ELSE /\ n_pc' = "classified"
                /\ n_brand' = brand
                /\ n_tokens' = WithDefaults(brand, parse_tokens_full(stem))
    /\ UNCHANGED <<n_stem, n_subdir, n_new_base, n_again>>
    /\ UNCHANGED <<urls, pc, i, parsed_files, ignored_log, j, grouped_logos, logos_list,
                   manifest, resolver_vars, rerun_vars, sorter_vars>>

\* sort_from_dot_sort on one file: the destination folder under the brand root
\* and the canonical filename
Synthesize ==
    /\ n_pc = "classified"
    /\ n_subdir' = dest_path_for(n_brand, n_brand, n_tokens)
    /\ n_new_base' = build_new_filename(n_brand, n_tokens)
    /\ n_pc' = "built"
    /\ UNCHANGED <<n_stem, n_brand, n_tokens, n_again>>
    /\ UNCHANGED <<urls, pc, i, parsed_files, ignored_log, j, grouped_logos, logos_list,
                   manifest, resolver_vars, rerun_vars, sorter_vars>>

\* crawl_and_zip on the file under its canonical name in its brand root: parsed
\* again, the brand of the root standing in where the name shows none
Reclassify ==
    /\ n_pc = "built"
    /\ LET brand == Or(detect_brand_from_name(n_new_base), n_brand)
       IN  n_again' = [brand |-> brand,
                       tokens |-> WithDefaults(brand, parse_tokens_full(n_new_base))]
    /\ n_pc' = "again"
    /\ UNCHANGED <<n_stem, n_brand, n_tokens, n_subdir, n_new_base>>
    /\ UNCHANGED <<urls, pc, i, parsed_files, ignored_log, j, grouped_logos, logos_list,
                   manifest, resolver_vars, rerun_vars, sorter_vars>>

NextNames == ClassifyName \/ Synthesize \/ Reclassify

SpecNames == InitNames /\ [][NextNames]_vars

-----------------------------------------------------------------------------
(* Claims about the canonical names and folders                            *)

KorteHoffmann == BRAND_CANON[5]

Gebaeudedruck == BRAND_CANON[2]

\* the tokens of the canonical filename behind the slug
NameTokens == Tail(Split(n_new_base, "_"))

\* the file is of a division with lockups and not a DREIHAUS file
HasLockups == n_brand \in DIVISIONS_WITH_LOCKUPS /\ ~n_tokens.dreihaus

\* C15 as stated: classifying the canonical filename gives every boolean
\* attribute (bar, trademark, clearspace, compact) the value it was built from
C15_RoundTripAllFlags ==
    n_pc = "again" =>
        /\ n_again.tokens.bar = n_tokens.bar
        /\ n_again.tokens.trademark = n_tokens.trademark
        /\ n_again.tokens.clearspace = n_tokens.clearspace
        /\ n_again.tokens.kh_compact = n_tokens.kh_compact

\* C15 amended: classifying the canonical filename gives the boolean attributes
\* of the file's naming schema the values it was built from: trademark and
\* clearspace always, bar for a division with lockups outside DREIHAUS, compact
\* for KORTE-HOFFMANN
C15_RoundTripSchemaFlags ==
    n_pc = "again" =>
        /\ n_again.tokens.trademark = n_tokens.trademark
        /\ n_again.tokens.clearspace = n_tokens.clearspace
        /\ HasLockups => n_again.tokens.bar = n_tokens.bar
        /\ n_brand = KorteHoffmann => n_again.tokens.kh_compact = n_tokens.kh_compact

C15_Witness ==
    /\ n_pc = "again"
    /\ HasLockups
    /\ n_tokens.bar = "True"
    /\ n_tokens.trademark = "False"
    /\ <<"t","r","a","d","e","m","a","r","k">> (* trademark *) \notin Range(NameTokens)
    /\ n_again.tokens.trademark = "False"

\* position of a token in the order lockup, bar / compact, color, size, trademark,
\* clearspace, mode; 0 for any other token
Rank(token) ==
    IF token \in Range(LOCKUP_CANON) THEN 1
    ELSE IF token \in { <<"b","a","r">> (* bar *), <<"c","o","m","p","a","c","t">> (* compact *) } THEN 2
    ELSE IF token \in Range(COLOR_CANON) THEN 3
    ELSE IF StartsWith(token, <<"s","i","z","e","-">> (* size- *)) THEN 4
    ELSE IF token = <<"t","r","a","d","e","m","a","r","k">> (* trademark *) THEN 5
    ELSE IF token = <<"c","l","e","a","r","s","p","a","c","e">> (* clearspace *) THEN 6
    ELSE IF token \in { <<"r","g","b">> (* rgb *), <<"c","m","y","k">> (* cmyk *) } THEN 7
    ELSE 0

\* no negative token, and the tokens in the order of the schema behind the slug
PositiveAndOrdered ==
    /\ Split(n_new_base, "_")[1] = n_tokens.slug
    /\ Range(NameTokens)
           \cap { <<"n","o","-","b","a","r">> (* no-bar *), <<"n","o","-","t","r","a","d","e","m","a","r","k">> (* no-trademark *), <<"n","o","-","c","l","e","a","r","s","p","a","c","e">> (* no-clearspace *), <<"n","o","-","c","o","m","p","a","c","t">> (* no-compact *) } = {}
    /\ \A k \in DOMAIN NameTokens : Rank(NameTokens[k]) > 0
    /\ \A k \in 1..(Len(NameTokens) - 1) : Rank(NameTokens[k]) < Rank(NameTokens[k + 1])

\* C16 as stated: the canonical filename has no negative token, bar, trademark,
\* clearspace and compact are in it exactly when the attribute is true, and the
\* tokens are in the order slug, lockup, bar / compact, color, size, trademark,
\* clearspace, mode
C16_PositiveTokensAllFlags ==
    n_pc \in {"built", "again"} =>
        /\ PositiveAndOrdered
        /\ <<"b","a","r">> (* bar *) \in Range(NameTokens) <=> n_tokens.bar = "True"
        /\ <<"t","r","a","d","e","m","a","r","k">> (* trademark *) \in Range(NameTokens) <=> n_tokens.trademark = "True"
        /\ <<"c","l","e","a","r","s","p","a","c","e">> (* clearspace *) \in Range(NameTokens) <=> n_tokens.clearspace = "True"
        /\ <<"c","o","m","p","a","c","t">> (* compact *) \in Range(NameTokens) <=> n_tokens.kh_compact = "True"

\* C16 amended: as stated, but bar is in the name exactly when it is true for a
\* division with lockups outside DREIHAUS, and compact exactly when it is true
\* for KORTE-HOFFMANN
C16_PositiveTokensSchemaFlags ==
    n_pc \in {"built", "again"} =>
        /\ PositiveAndOrdered
        /\ <<"b","a","r">> (* bar *) \in Range(NameTokens) <=> (n_tokens.bar = "True" /\ HasLockups)
        /\ <<"t","r","a","d","e","m","a","r","k">> (* trademark *) \in Range(NameTokens) <=> n_tokens.trademark = "True"
        /\ <<"c","l","e","a","r","s","p","a","c","e">> (* clearspace *) \in Range(NameTokens) <=> n_tokens.clearspace = "True"
        /\ <<"c","o","m","p","a","c","t">> (* compact *) \in Range(NameTokens)
               <=> (n_tokens.kh_compact = "True" /\ n_brand = KorteHoffmann)

C16_Witness ==
    /\ n_pc = "built"
    /\ n_brand = KorteHoffmann
    /\ n_tokens.kh_compact = "True"
    /\ n_tokens.trademark = "True"
    /\ n_tokens.clearspace = "False"
    /\ NameTokens = << <<"c","o","m","p","a","c","t">> (* compact *), <<"b","l","a","c","k">> (* black *), <<"s","i","z","e","-","m">> (* size-m *), <<"t","r","a","d","e","m","a","r","k">> (* trademark *), <<"r","g","b">> (* rgb *) >>

\* C17: the destination folder is the brand root followed by DREIHAUS, size,
\* trademark and clearspace folders for a DREIHAUS file, by compact, size,
\* trademark and clearspace folders for KORTE-HOFFMANN, and by lockup, bar, size,
\* trademark and clearspace folders for a division with lockups
C17_FolderSchema ==
    n_pc \in {"built", "again"} =>
        LET segments == Split(n_subdir, "/")
            tail == << <<"s","i","z","e","-">> (* size- *) \o n_tokens.size,
                       IF n_tokens.trademark = "True" THEN <<"t","r","a","d","e","m","a","r","k">> (* trademark *)
                                                      ELSE <<"n","o","-","t","r","a","d","e","m","a","r","k">> (* no-trademark *),
                       IF n_tokens.clearspace = "True" THEN <<"c","l","e","a","r","s","p","a","c","e">> (* clearspace *)
                                                       ELSE <<"n","o","-","c","l","e","a","r","s","p","a","c","e">> (* no-clearspace *) >>
        IN  /\ n_tokens.size \in Range(SIZE_CANON)
            /\ IF n_brand = Gebaeudedruck /\ n_tokens.dreihaus
               THEN segments = <<n_brand, <<"D","R","E","I","H","A","U","S">> (* DREIHAUS *)>> \o tail
               ELSE IF n_brand = KorteHoffmann
               THEN /\ Len(segments) = 5
                    /\ segments[2] = IF n_tokens.kh_compact = "True"
                                     THEN <<"c","o","m","p","a","c","t">> (* compact *) ELSE <<"n","o","-","c","o","m","p","a","c","t">> (* no-compact *)
                    /\ segments = <<n_brand, segments[2]>> \o tail
               ELSE /\ HasLockups
                    /\ Len(segments) = 6
                    /\ segments[2] \in Range(LOCKUP_CANON)
                    /\ n_tokens.lockup # None => segments[2] = n_tokens.lockup
                    /\ segments[3] = IF n_tokens.bar = "True" THEN <<"b","a","r">> (* bar *) ELSE <<"n","o","-","b","a","r">> (* no-bar *)
                    /\ segments = <<n_brand, segments[2], segments[3]>> \o tail

C17_Witness ==
    /\ n_pc = "built"
    /\ n_brand = KorteHoffmann
    /\ n_subdir = <<"K","O","R","T","E","-","H","O","F","F","M","A","N","N","/","c","o","m","p","a","c","t","/","s","i","z","e","-","x","x","s","/","n","o","-","t","r","a","d","e","m","a","r","k","/","n","o","-","c","l","e","a","r","s","p","a","c","e">> (* KORTE-HOFFMANN/compact/size-xxs/no-trademark/no-clearspace *)

-----------------------------------------------------------------------------
(* Logo/sort-logos.py: the runs on the directory tree                      *)
(*                                                                         *)
(* Paths are relative to base_dir, on a case-sensitive file system, where  *)
(* os.path.normcase is the identity. A file is [origin, members]: origin   *)
(* is the path the content lay at when the run started, None for a ZIP the *)
(* run wrote; members are the <<arcname, origin>> of what a written ZIP    *)
(* holds.                                                                  *)

SKIP_FILES == { <<"t","h","u","m","b","s",".","d","b">> (* thumbs.db *), <<"d","e","s","k","t","o","p",".","i","n","i">> (* desktop.ini *) }

\* os.path.dirname (posixpath)
Dirname(p) == SubSeq(p, 1, RFind(p, "/") - 1)

\* the path lies below the directory
Under(directory, p) == StartsWith(p, directory \o <<"/">>)

\* os.remove
Remove(f, p) == [q \in DOMAIN f \ {p} |-> f[q]]

\* os.rename and shutil.move of an existing src: what lay at dst is replaced
Move(f, src, dst) ==
    [q \in (DOMAIN f \ {src}) \cup {dst} |-> IF q = dst THEN f[src] ELSE f[q]]

\* the entries of `removed` for the files of f at the given paths
Lost(f, paths, by) == {[path |-> p, content |-> f[p], by |-> by] : p \in paths}

\* stats[key] += 1
Count(counters, key) == [counters EXCEPT ![key] = @ + 1]

\* mutant: a rule that was not set is switched on
configure_delete_policy_DefaultsOn(policy, non_interactive) ==
    {[policy |-> [k \in DOMAIN policy |-> IF policy[k] = "None" THEN "True" ELSE policy[k]],
      proceed |-> TRUE]}

\* configure_delete_policy: the policies it can leave behind, and whether the run
\* goes on; the answers at the prompts are any
configure_delete_policy(policy, non_interactive) ==
    IF non_interactive
    THEN {[policy |-> [k \in DOMAIN policy |->
                          IF policy[k] = "None" THEN "False" ELSE policy[k]],
           proceed |-> TRUE]}
    ELSE {[policy |-> answered, proceed |-> proceed] :
             answered \in {a \in [DOMAIN policy -> {"True", "False"}] :
                              \A k \in DOMAIN policy : policy[k] # "None" => a[k] = policy[k]},
             proceed \in BOOLEAN}

\* mutant: the name is not looked at
should_delete_AnyName(brand, size, tm, color, ext, name_no_ext) ==
    \/ DELETE_POLICY.size_xxs_tm = "True" /\ size = <<"x","x","s">> (* xxs *) /\ tm = "True"
    \/ /\ DELETE_POLICY.white_jpg = "True"
       /\ ext = <<".","j","p","g">> (* .jpg *) /\ color # None /\ Contains(color, <<"w","h","i","t","e">> (* white *))
    \/ /\ DELETE_POLICY.accent_banned = "True"
       /\ brand \in { <<"K","O","R","T","E","-","H","O","F","F","M","A","N","N">> (* KORTE-HOFFMANN *), <<"K","H","-","G","r","u","p","p","e">> (* KH-Gruppe *) }
       /\ color \in { <<"w","h","i","t","e","+","a","c","c","e","n","t">> (* white+accent *), <<"b","l","a","c","k","+","a","c","c","e","n","t">> (* black+accent *) }

\* should_delete, the flag of the returned pair
should_delete(brand, size, tm, color, ext, name_no_ext) ==
    IF Contains(Lower(name_no_ext), <<"d","r","e","i","h","a","u","s">> (* dreihaus *)) THEN FALSE
    ELSE \/ DELETE_POLICY.size_xxs_tm = "True" /\ size = <<"x","x","s">> (* xxs *) /\ tm = "True"
         \/ /\ DELETE_POLICY.white_jpg = "True"
            /\ ext = <<".","j","p","g">> (* .jpg *) /\ color # None /\ Contains(color, <<"w","h","i","t","e">> (* white *))
         \/ /\ DELETE_POLICY.accent_banned = "True"
            /\ brand \in { <<"K","O","R","T","E","-","H","O","F","F","M","A","N","N">> (* KORTE-HOFFMANN *), <<"K","H","-","G","r","u","p","p","e">> (* KH-Gruppe *) }
            /\ color \in { <<"w","h","i","t","e","+","a","c","c","e","n","t">> (* white+accent *), <<"b","l","a","c","k","+","a","c","c","e","n","t">> (* black+accent *) }

\* ensure_brand_root: the directory of base_dir with the name of the brand in any
\* case, the directory it creates when there is none
ensure_brand_root(listing, brand) ==
    IF \E d \in listing : Lower(d) = Lower(brand)
    THEN CHOOSE d \in listing : Lower(d) = Lower(brand)
    ELSE brand

\* get_brand_roots: the existing brand roots in the order of BRAND_CANON
get_brand_roots(listing) ==
    LET Exists(b) == \E d \in listing : Lower(d) = Lower(b)
    IN  [k \in DOMAIN SelectSeq(BRAND_CANON, Exists) |->
            ensure_brand_root(listing, SelectSeq(BRAND_CANON, Exists)[k])]

\* safe_rename_case_insensitive for src # dst: [fs, ok, lost]; a file at dst that
\* is not src itself is removed, then src is renamed; ok is FALSE when the
\* function raises
safe_rename_case_insensitive(f, src, dst) ==
    [fs |-> IF src \in DOMAIN f THEN Move(Remove(f, dst), src, dst) ELSE Remove(f, dst),
     ok |-> src \in DOMAIN f,
     lost |-> Lost(f, {dst} \cap DOMAIN f, "rename")]

\* [fs, dirs, stats, removed] behind an iteration of the loop of sort_from_dot_sort
Outcome(f, listing, counters, gone) ==
    [fs |-> f, dirs |-> listing, stats |-> counters, removed |-> gone]

\* the iteration from should_delete on: the file is deleted by a rule, or moved
\* to its destination unless that is occupied and not to be overwritten
sort_placed(f, counters, gone, full, stem, ext_l, overwrite, brand, tokens) ==
    LET brand_root == ensure_brand_root(dirs, brand)
        dest == dest_path_for(brand_root, brand, tokens)
                    \o <<"/">> \o build_new_filename(brand, tokens) \o ext_l
    IN  IF should_delete(brand, tokens.size, tokens.trademark, tokens.color, ext_l, stem)
        THEN IF full \in DOMAIN f
             THEN Outcome(Remove(f, full), dirs, Count(counters, "deleted"),
                          gone \cup Lost(f, {full}, "rule"))
             ELSE Outcome(f, dirs, counters, gone)
        ELSE IF dest \in DOMAIN f /\ ~overwrite
        THEN Outcome(f, dirs \cup {brand_root}, Count(counters, "skipped"), gone)
        ELSE IF full \in DOMAIN f
        THEN Outcome(Move(Remove(f, dest), full, dest), dirs \cup {brand_root},
                     Count(counters, "moved"),
                     gone \cup Lost(f, {dest} \cap DOMAIN f, "overwrite"))
        ELSE Outcome(Remove(f, dest), dirs \cup {brand_root}, Count(counters, "skipped"),
                     gone \cup Lost(f, {dest} \cap DOMAIN f, "overwrite"))

\* the iteration from parse_tokens_full on: a file without a brand is skipped
sort_classified(f, counters, gone, full, stem, ext_l, overwrite) ==
    IF detect_brand_from_name(stem) = None
    THEN Outcome(f, dirs, Count(counters, "skipped"), gone)
    ELSE sort_placed(f, counters, gone, full, stem, ext_l, overwrite,
                     detect_brand_from_name(stem),
                     WithDefaults(detect_brand_from_name(stem), parse_tokens_full(stem)))

\* one iteration of the loop of sort_from_dot_sort: the extension is checked and
\* the file renamed to its normalised name where that differs
sort_file(full, overwrite) ==
    LET stem == Splitext(Basename(full))[1]
        ext == Splitext(Basename(full))[2]
        norm_stem == normalize_stem(stem)
        new_full == Dirname(full) \o <<"/">> \o norm_stem \o Lower(ext)
        renamed == safe_rename_case_insensitive(fs, full, new_full)
    IN  IF Lower(ext) \notin ALLOWED_EXTS
        THEN Outcome(fs, dirs, Count(stats, "skipped"), removed)
        ELSE IF norm_stem = stem /\ Lower(ext) = ext
        THEN sort_classified(fs, stats, removed, full, stem, Lower(ext), overwrite)
        ELSE IF ~renamed.ok
        THEN Outcome(renamed.fs, dirs, Count(stats, "skipped"), removed \cup renamed.lost)
        ELSE sort_classified(renamed.fs, Count(stats, "renamed"),
                             removed \cup renamed.lost, new_full, norm_stem, Lower(ext),
                             overwrite)

\* the iteration of the inner loop of crawl_and_zip from `if do_repairs` on:
\* [fs, crawl, removed]
crawl_placed(full, ext_l, brand, tokens, ideal_dir, target_path) ==
    IF ~crawl.do_repairs
    THEN [fs |-> fs, crawl |-> Count(crawl, "kept"), removed |-> removed]
    ELSE IF should_delete(brand, tokens.size, tokens.trademark, tokens.color, ext_l,
                          Splitext(Basename(full))[1])
    THEN [fs |-> Remove(fs, full), crawl |-> Count(crawl, "deleted"),
          removed |-> removed \cup Lost(fs, {full}, "rule")]
    ELSE IF \/ Dirname(full) # ideal_dir
            \/ crawl.do_renames /\ Basename(full) # Basename(target_path)
    THEN [fs |-> Move(Remove(fs, target_path), full, target_path),
          crawl |-> crawl,
          removed |-> removed \cup Lost(fs, {target_path} \cap DOMAIN fs, "repair")]
    ELSE [fs |-> fs, crawl |-> Count(crawl, "kept"), removed |-> removed]

\* the iteration from dest_path_for on
crawl_classified(br, full, ext_l, brand, tokens) ==
    crawl_placed(full, ext_l, brand, tokens, dest_path_for(br, brand, tokens),
                 dest_path_for(br, brand, tokens) \o <<"/">>
                     \o (IF crawl.do_renames THEN build_new_filename(brand, tokens) \o ext_l
                         ELSE Basename(full)))

\* one iteration of the inner loop of crawl_and_zip on a file with an allowed
\* extension below the brand root br
crawl_file(br, full) ==
    LET stem == Splitext(Basename(full))[1]
        brand == Or(detect_brand_from_name(stem), Basename(br))
    IN  crawl_classified(br, full, Lower(Splitext(Basename(full))[2]), brand,
                         WithDefaults(brand, parse_tokens_full(stem)))

\* collect_variant_groups: the path of the ZIP of the variant a file belongs to
VariantZip(p) ==
    LET base == Splitext(Basename(p))[1]
        EndsWith(suffix) ==
            Len(base) >= Len(suffix) /\ Drop(base, Len(base) - Len(suffix)) = suffix
    IN  Dirname(p) \o <<"/">>
        \o (IF EndsWith(<<"_","r","g","b">> (* _rgb *)) THEN SubSeq(base, 1, Len(base) - 4)
            ELSE IF EndsWith(<<"_","c","m","y","k">> (* _cmyk *)) THEN SubSeq(base, 1, Len(base) - 5)
            ELSE base)
        \o <<".","z","i","p">> (* .zip *)

\* collect_variant_groups: the files of the brand root that go into variant ZIPs
collect_variant_groups(f, br) ==
    {p \in DOMAIN f : Under(br, p) /\ Lower(Splitext(Basename(p))[2]) \in ALLOWED_EXTS}

\* make_zip on every group: the ZIPs in `written` are written, the others exist
\* and are passed over
make_zip(f, grouped, written, gone) ==
    [fs |-> [q \in DOMAIN f \cup written |->
                IF q \in written
                THEN [origin |-> None,
                      members |-> {<<Basename(p), f[p].origin>> :
                                      p \in {x \in grouped : VariantZip(x) = q}}]
                ELSE f[q]],
     variant_created |-> Cardinality(written),
     variant_skipped |-> Cardinality({VariantZip(p) : p \in grouped} \ written),
     removed |-> gone \cup Lost(f, written \cap DOMAIN f, "zip")]

\* zip_per_brand behind the variant ZIPs
zip_per_brand(zipped, br, overwrite) ==
    IF br \o <<".","z","i","p">> (* .zip *) \in DOMAIN zipped.fs /\ ~overwrite
    THEN [fs |-> zipped.fs, variant_created |-> zipped.variant_created,
          variant_skipped |-> zipped.variant_skipped, brand_created |-> FALSE,
          removed |-> zipped.removed]
    ELSE [fs |-> [q \in DOMAIN zipped.fs \cup {br \o <<".","z","i","p">> (* .zip *)} |->
                     IF q = br \o <<".","z","i","p">> (* .zip *)
                     THEN [origin |-> None,
                           members |-> {<<p, zipped.fs[p].origin>> :
                                           p \in {x \in DOMAIN zipped.fs : Under(br, x)}}]
                     ELSE zipped.fs[q]],
          variant_created |-> zipped.variant_created,
          variant_skipped |-> zipped.variant_skipped, brand_created |-> TRUE,
          removed |-> zipped.removed
                      \cup Lost(zipped.fs, {br \o <<".","z","i","p">> (* .zip *)} \cap DOMAIN zipped.fs, "zip")]

\* the variant ZIPs and the brand ZIP of one brand root, as the end of the loop
\* body of crawl_and_zip writes them:
\* [fs, variant_created, variant_skipped, brand_created, removed]
zip_root(f, br, overwrite, gone) ==
    zip_per_brand(
        make_zip(f, collect_variant_groups(f, br),
                 {z \in {VariantZip(p) : p \in collect_variant_groups(f, br)} :
                     z \notin DOMAIN f \/ overwrite},
                 gone),
        br, overwrite)

\* the second loop of crawl_repair_and_zip: every brand root zipped again
RECURSIVE zip_roots(_, _)
zip_roots(zipped, roots) ==
    IF roots = <<>> THEN zipped
    ELSE zip_roots(zip_root(zipped.fs, Head(roots), TRUE, zipped.removed), Tail(roots))

\* the folders of a brand root that hold a file
Folders(f, br) == {Dirname(p) : p \in {q \in DOMAIN f : Under(br, q)}}

-----------------------------------------------------------------------------
(* One run of main() on a small tree                                       *)

MaxTreeFiles == 2

\* the files a tree can hold when the run starts
TreePaths == {
    <<".","s","o","r","t","/","K","H","-","G","r","u","p","p","e","_","l","e","f","t","_","b","l","a","c","k",".","P","N","G">> (* .sort/KH-Gruppe_left_black.PNG *),
    <<".","s","o","r","t","/","k","h","-","g","r","u","p","p","e","_","l","e","f","t","_","w","h","i","t","e","+","a","c","c","e","n","t","_","s","i","z","e","-","x","x","s","_","t","r","a","d","e","m","a","r","k",".","j","p","g">> (* .sort/kh-gruppe_left_white+accent_size-xxs_trademark.jpg *),
    <<".","s","o","r","t","/","K","H","-","G","r","u","p","p","e","_","l","e","f","t","_","w","h","i","t","e","+","a","c","c","e","n","t","_","s","i","z","e","-","x","x","s","_","t","r","a","d","e","m","a","r","k",".","j","p","g">> (* .sort/KH-Gruppe_left_white+accent_size-xxs_trademark.jpg *),
    <<".","s","o","r","t","/","d","r","e","i","h","a","u","s","_","w","h","i","t","e","_","s","i","z","e","-","x","x","s","_","t","r","a","d","e","m","a","r","k",".","j","p","g">> (* .sort/dreihaus_white_size-xxs_trademark.jpg *),
    <<".","s","o","r","t","/","m","y","s","t","e","r","y",".","p","n","g">> (* .sort/mystery.png *),
    <<"K","H","-","G","r","u","p","p","e","/","l","e","f","t","/","n","o","-","b","a","r","/","s","i","z","e","-","m","/","n","o","-","t","r","a","d","e","m","a","r","k","/","n","o","-","c","l","e","a","r","s","p","a","c","e","/","k","h","-","g","r","u","p","p","e","_","l","e","f","t","_","b","l","a","c","k","_","s","i","z","e","-","m","_","r","g","b",".","p","n","g">> (* KH-Gruppe/left/no-bar/size-m/no-trademark/no-clearspace/kh-gruppe_left_black_size-m_rgb.png *),
    <<"K","H","-","G","r","u","p","p","e","/","k","h","-","g","r","u","p","p","e","_","l","e","f","t","_","b","l","a","c","k","_","s","i","z","e","-","m","_","r","g","b",".","p","n","g">> (* KH-Gruppe/kh-gruppe_left_black_size-m_rgb.png *),
    <<"K","H","-","G","r","u","p","p","e",".","z","i","p">> (* KH-Gruppe.zip *),
    <<"K","H","-","G","e","b","a","e","u","d","e","d","r","u","c","k","/","g","e","b","a","e","u","d","e","d","r","u","c","k","_","d","r","e","i","h","a","u","s","_","w","h","i","t","e",".","p","n","g">> (* KH-Gebaeudedruck/gebaeudedruck_dreihaus_white.png *) }

InitSorter ==
    /\ s_pc = "configure"
    /\ args \in [mode : {"sort", "crawl", "repair"}, overwrite : BOOLEAN, assume_no : BOOLEAN]
    /\ DELETE_POLICY = [size_xxs_tm |-> "None", white_jpg |-> "None", accent_banned |-> "None"]
    /\ \E tree \in {t \in SUBSET TreePaths : Cardinality(t) <= MaxTreeFiles} :
          /\ fs = [p \in tree |-> [origin |-> p, members |-> {}]]
          /\ dirs = {Split(p, "/")[1] : p \in {q \in tree : Find(q, "/") > 0}}
    /\ sort_files = {}
    /\ stats = [kept |-> 0, moved |-> 0, deleted |-> 0, skipped |-> 0, renamed |-> 0]
    /\ crawl = [do_repairs |-> FALSE, do_renames |-> FALSE, overwrite |-> TRUE,
                due |-> {}, kept |-> 0, deleted |-> 0, zip_variant_created |-> 0,
                zip_variant_skip_exists |-> 0, zip_brand_created |-> 0,
                zip_brand_skip_exists |-> 0]
    /\ brand_roots = <<>>
    /\ visited = {}
    /\ walk = {}
    /\ removed = {}
    /\ NamesIdle
    /\ urls = <<>>
    /\ pc = "off"
    /\ i = 0
    /\ parsed_files = <<>>
    /\ ignored_log = <<>>
    /\ j = 0
    /\ grouped_logos = <<>>
    /\ logos_list = <<>>
    /\ manifest = None
    /\ run = 1
    /\ first = None
    /\ r_keys = AssetKeyList
    /\ r_name = <<>>
    /\ r_brand = None
    /\ r_pc = "off"

\* what no action of the sorter touches
SorterFrame ==
    UNCHANGED <<urls, pc, i, parsed_files, ignored_log, j, grouped_logos, logos_list,
                manifest, resolver_vars, rerun_vars, names_vars, args>>

\* the arguments crawl_and_zip is called with and its fresh counters
CrawlCall(do_repairs, do_renames, overwrite) ==
    [do_repairs |-> do_repairs, do_renames |-> do_renames, overwrite |-> overwrite,
     due |-> {}, kept |-> 0, deleted |-> 0, zip_variant_created |-> 0,
     zip_variant_skip_exists |-> 0, zip_brand_created |-> 0, zip_brand_skip_exists |-> 0]

\* main: configure_delete_policy and the dispatch on the mode
Configure ==
    /\ s_pc = "configure"
    /\ \E outcome \in configure_delete_policy(DELETE_POLICY, args.assume_no) :
          /\ DELETE_POLICY' = outcome.policy
          /\ s_pc' = IF ~outcome.proceed THEN "exit"
                     ELSE IF args.mode = "sort" THEN "sort" ELSE "crawl"
    /\ crawl' = IF args.mode = "repair" THEN CrawlCall(TRUE, TRUE, TRUE)
                ELSE CrawlCall(TRUE, FALSE, args.overwrite)
    /\ UNCHANGED <<fs, dirs, sort_files, stats, brand_roots, visited, walk, removed>>
    /\ SorterFrame

\* sort_from_dot_sort up to its loop: the files of .sort are listed
ListDotSort ==
    /\ s_pc = "sort"
    /\ IF <<".","s","o","r","t">> (* .sort *) \notin dirs
       THEN /\ s_pc' = "done"
            /\ UNCHANGED sort_files
       ELSE /\ s_pc' = "sorting"
            /\ sort_files' = {p \in DOMAIN fs :
                                 /\ Dirname(p) = <<".","s","o","r","t">> (* .sort *)
                                 /\ ~StartsWith(Basename(p), <<".">>)
                                 /\ Lower(Basename(p)) \notin SKIP_FILES}
    /\ UNCHANGED <<DELETE_POLICY, fs, dirs, stats, crawl, brand_roots, visited, walk,
                   removed>>
    /\ SorterFrame

\* one iteration of the loop of sort_from_dot_sort, on the entry os.listdir
\* happened to put next
SortFile ==
    /\ s_pc = "sorting"
    /\ \E full \in sort_files :
          \E outcome \in {sort_file(full, args.overwrite)} :
              /\ fs' = outcome.fs
              /\ dirs' = outcome.dirs
              /\ stats' = outcome.stats
              /\ removed' = outcome.removed
              /\ sort_files' = sort_files \ {full}
    /\ UNCHANGED <<s_pc, DELETE_POLICY, crawl, brand_roots, visited, walk>>
    /\ SorterFrame

\* sort_from_dot_sort behind its loop: the post-sort crawl is called
SortReturn ==
    /\ s_pc = "sorting"
    /\ sort_files = {}
    /\ crawl' = CrawlCall(FALSE, FALSE, args.overwrite)
    /\ s_pc' = "crawl"
    /\ UNCHANGED <<DELETE_POLICY, fs, dirs, sort_files, stats, brand_roots, visited, walk,
                   removed>>
    /\ SorterFrame

\* crawl_and_zip up to the walk of the first brand root
CrawlStart ==
    /\ s_pc = "crawl"
    /\ brand_roots' = get_brand_roots(dirs)
    /\ crawl' = [crawl EXCEPT !.due = IF brand_roots' = <<>> THEN {}
                                      ELSE Folders(fs, Head(brand_roots'))]
    /\ visited' = {}
    /\ s_pc' = "walking"
    /\ UNCHANGED <<DELETE_POLICY, fs, dirs, sort_files, stats, walk, removed>>
    /\ SorterFrame

\* os.walk reaches a folder of the brand root and lists its files: a folder that
\* held a file when the walk started is reached, one that got its first file
\* since may be; a folder is listed before the folders below it. The files the
\* loop passes over for their extension are left out of the list.
ListFolder ==
    /\ s_pc = "walking"
    /\ brand_roots # <<>>
    /\ walk = {}
    /\ LET open == (crawl.due \cup Folders(fs, Head(brand_roots))) \ visited
       IN  \E folder \in open :
              /\ \A g \in open : ~Under(g, folder)
              /\ walk' = {p \in DOMAIN fs :
                             /\ Dirname(p) = folder
                             /\ Lower(Splitext(Basename(p))[2]) \in ALLOWED_EXTS}
              /\ visited' = visited \cup {folder}
              /\ crawl' = [crawl EXCEPT !.due = @ \ {folder}]
    /\ UNCHANGED <<s_pc, DELETE_POLICY, fs, dirs, sort_files, stats, brand_roots, removed>>
    /\ SorterFrame

\* one iteration of the inner loop of crawl_and_zip
CrawlFile ==
    /\ s_pc = "walking"
    /\ brand_roots # <<>>
    /\ \E full \in walk :
          \E outcome \in {crawl_file(Head(brand_roots), full)} :
              /\ fs' = outcome.fs
              /\ crawl' = outcome.crawl
              /\ removed' = outcome.removed
              /\ walk' = walk \ {full}
    /\ UNCHANGED <<s_pc, DELETE_POLICY, dirs, sort_files, stats, brand_roots, visited>>
    /\ SorterFrame

\* the end of the loop body of crawl_and_zip: the walk of the brand root is over,
\* its variant ZIPs and its brand ZIP are written, the next root is entered
ZipRoot ==
    /\ s_pc = "walking"
    /\ brand_roots # <<>>
    /\ walk = {}
    /\ crawl.due = {}
    /\ \E zipped \in {zip_root(fs, Head(brand_roots), crawl.overwrite, removed)} :
           /\ fs' = zipped.fs
           /\ removed' = zipped.removed
           /\ brand_roots' = Tail(brand_roots)
           /\ crawl' = [crawl EXCEPT
                  !.zip_variant_created = @ + zipped.variant_created,
                  !.zip_variant_skip_exists = @ + zipped.variant_skipped,
                  !.zip_brand_created = @ + (IF zipped.brand_created THEN 1 ELSE 0),
                  !.zip_brand_skip_exists = @ + (IF zipped.brand_created THEN 0 ELSE 1),
                  !.due = IF Tail(brand_roots) = <<>> THEN {}
                          ELSE Folders(zipped.fs, Head(Tail(brand_roots)))]
    /\ visited' = {}
    /\ UNCHANGED <<s_pc, DELETE_POLICY, dirs, sort_files, stats, walk>>
    /\ SorterFrame

\* crawl_and_zip returns; crawl_repair_and_zip goes on to its second loop
CrawlReturn ==
    /\ s_pc = "walking"
    /\ brand_roots = <<>>
    /\ s_pc' = IF args.mode = "repair" THEN "rezip" ELSE "done"
    /\ UNCHANGED <<DELETE_POLICY, fs, dirs, sort_files, stats, crawl, brand_roots, visited,
                   walk, removed>>
    /\ SorterFrame

\* the second loop of crawl_repair_and_zip
Rezip ==
    /\ s_pc = "rezip"
    /\ \E zipped \in {zip_roots([fs |-> fs, removed |-> removed], get_brand_roots(dirs))} :
           /\ fs' = zipped.fs
           /\ removed' = zipped.removed
    /\ s_pc' = "done"
    /\ UNCHANGED <<DELETE_POLICY, dirs, sort_files, stats, crawl, brand_roots, visited, walk>>
    /\ SorterFrame

NextSorter ==
    \/ Configure
    \/ ListDotSort
    \/ SortFile
    \/ SortReturn
    \/ CrawlStart
    \/ ListFolder
    \/ CrawlFile
    \/ ZipRoot
    \/ CrawlReturn
    \/ Rezip

SpecSorter == InitSorter /\ [][NextSorter]_vars

-----------------------------------------------------------------------------
(* Claims about the runs on the directory tree                             *)

\* the files that lay in the tree when the run started and are still there
Kept == {p \in DOMAIN fs : fs[p].origin # None}

\* what the run removed for another reason than a delete rule or the writing of
\* a ZIP in its place
LostFiles == {r \in removed : r.by \notin {"rule", "zip"}}

\* the files of TreePaths that have a brand, as the loops classify them
TreeFacts ==
    LET Stem(p) == normalize_stem(Splitext(Basename(p))[1])
        branded == {p \in TreePaths : detect_brand_from_name(Stem(p)) # None}
    IN  [p \in branded |->
            [brand |-> detect_brand_from_name(Stem(p)),
             tokens |-> WithDefaults(detect_brand_from_name(Stem(p)),
                                     parse_tokens_full(Stem(p))),
             ext_l |-> Lower(Splitext(Basename(p))[2]),
             stem |-> Stem(p)]]

\* should_delete returns True for the file
RuleDeletes(p) ==
    /\ p \in DOMAIN TreeFacts
    /\ should_delete(TreeFacts[p].brand, TreeFacts[p].tokens.size,
                     TreeFacts[p].tokens.trademark, TreeFacts[p].tokens.color,
                     TreeFacts[p].ext_l, TreeFacts[p].stem)

\* C18: in crawl mode no file is moved: every file that was not deleted by a
\* delete rule is still in the directory it was in before the run
C18_CrawlMovesNoFile ==
    args.mode = "crawl" =>
        /\ \A p \in Kept : Dirname(p) = Dirname(fs[p].origin)
        /\ LostFiles = {}

\* C19: with --assume-no every delete rule is off behind configure_delete_policy,
\* should_delete is False for every file, and no run mode deletes a file because
\* of a delete rule
C19_AssumeNoDeletesNothing ==
    (args.assume_no /\ s_pc \notin {"off", "configure"}) =>
        /\ \A k \in DOMAIN DELETE_POLICY : DELETE_POLICY[k] = "False"
        /\ \A p \in TreePaths : ~RuleDeletes(p)
        /\ \A r \in removed : r.by # "rule"
        /\ stats.deleted = 0
        /\ crawl.deleted = 0

C19_Witness ==
    /\ args.assume_no
    /\ s_pc = "done"
    /\ \E p \in Kept :
          /\ fs[p].origin = <<".","s","o","r","t","/","k","h","-","g","r","u","p","p","e","_","l","e","f","t","_","w","h","i","t","e","+","a","c","c","e","n","t","_","s","i","z","e","-","x","x","s","_","t","r","a","d","e","m","a","r","k",".","j","p","g">> (* .sort/kh-gruppe_left_white+accent_size-xxs_trademark.jpg *)
          /\ Under(<<"K","H","-","G","r","u","p","p","e">> (* KH-Gruppe *), p)

\* C20: with overwrite disabled a sort run never removes or replaces a file that
\* exists: whatever it removes, it removes for a delete rule, and a file whose
\* destination is occupied stays where it is
C20_NoOverwriteKeepsFiles ==
    (args.mode = "sort" /\ ~args.overwrite) => \A r \in removed : r.by = "rule"

\* the removals behind a collision: a file lay at the normalised name, at the
\* destination of a sorted file or at the target of a repair move, and the run
\* removed it to put another file there. None of the three places calls warn()
\* or counts the file in a counter.
SilentLosses == {r \in removed : r.by \in {"rename", "overwrite", "repair"}}

\* C21: when two files of a sort or repair run resolve to the same destination
\* folder and canonical filename, the collision is surfaced by a warning or by a
\* skip: the run removes no file silently to make room for another
C21_CollisionSurfaced ==
    args.mode \in {"sort", "repair"} => SilentLosses = {}

\* names with 'dreihaus' in them, in lower and in mixed case
DreihausNames == { <<"d","r","e","i","h","a","u","s","_","w","h","i","t","e","_","s","i","z","e","-","x","x","s","_","t","r","a","d","e","m","a","r","k">> (* dreihaus_white_size-xxs_trademark *), <<"K","H","-","G","r","u","p","p","e","_","D","r","e","i","h","a","u","s","_","w","h","i","t","e","+","a","c","c","e","n","t">> (* KH-Gruppe_Dreihaus_white+accent *) }

\* C27: should_delete is False for a name that contains 'dreihaus', under every
\* combination of enabled rules, brand, size, trademark, color and extension, and
\* no run removes such a file for a delete rule. should_delete reads the policy
\* only, so the combinations are gone through once for every policy that
\* configure_delete_policy leaves behind, in the sort runs on the empty tree.
C27_DreihausNeverDeleted ==
    /\ (s_pc = "sort" /\ fs = <<>>) =>
          \A name \in DreihausNames, brand \in Range(BRAND_CANON),
             size \in Range(SIZE_CANON), tm \in {"True", "False"},
             color \in Range(COLOR_CANON) \cup {None}, ext \in ALLOWED_EXTS :
                 ~should_delete(brand, size, tm, color, ext, name)
    /\ \A r \in removed :
          r.by = "rule" => ~Contains(Lower(r.content.origin), <<"d","r","e","i","h","a","u","s">> (* dreihaus *))

\* every delete rule is on, and the white Dreihaus JPG of size xxs with trademark
\* has been sorted into its folder
C27_Witness ==
    /\ s_pc = "done"
    /\ \A k \in DOMAIN DELETE_POLICY : DELETE_POLICY[k] = "True"
    /\ \E p \in Kept :
          /\ fs[p].origin = <<".","s","o","r","t","/","d","r","e","i","h","a","u","s","_","w","h","i","t","e","_","s","i","z","e","-","x","x","s","_","t","r","a","d","e","m","a","r","k",".","j","p","g">> (* .sort/dreihaus_white_size-xxs_trademark.jpg *)
          /\ Under(<<"K","H","-","G","e","b","a","e","u","d","e","d","r","u","c","k","/","D","R","E","I","H","A","U","S">> (* KH-Gebaeudedruck/DREIHAUS *), p)

\* the place the repair puts a file of the brand root br: the folder from
\* dest_path_for and the name from build_new_filename, both derived from the
\* file's current name
RepairTarget(br, full) ==
    LET stem == Splitext(Basename(full))[1]
        brand == Or(detect_brand_from_name(stem), Basename(br))
        tokens == WithDefaults(brand, parse_tokens_full(stem))
    IN  dest_path_for(br, brand, tokens) \o <<"/">> \o build_new_filename(brand, tokens)
            \o Lower(Splitext(Basename(full))[2])

\* the files a crawl of the brand root looks at
Crawled(br) ==
    {p \in DOMAIN fs : Under(br, p) /\ Lower(Splitext(Basename(p))[2]) \in ALLOWED_EXTS}

\* C28: when a repair run has completed, every file of a brand root lies in the
\* folder and under the name that are derived from its current name, so that a
\* second repair run moves or renames no file
C28_RepairFixedPoint ==
    (args.mode = "repair" /\ s_pc = "done") =>
        \A k \in DOMAIN get_brand_roots(dirs) :
            \A p \in Crawled(get_brand_roots(dirs)[k]) :
                RepairTarget(get_brand_roots(dirs)[k], p) = p

\* the files sort_from_dot_sort enumerates from .sort: the files of the tree that
\* lay in .sort when the run started (none of them is a dot file or in SKIP_FILES)
Enumerated ==
    {p \in TreePaths :
        /\ Dirname(p) = <<".","s","o","r","t">> (* .sort *)
        /\ p \in {fs[q].origin : q \in DOMAIN fs} \cup {x.content.origin : x \in removed}}

\* C29: when the loop of sort_from_dot_sort is over, every file enumerated from
\* .sort has been counted once as moved, deleted or skipped, also when a rename,
\* a delete or a move failed: the three counters add up to the number of files
C29_StatsAccountForEveryFile ==
    (args.mode = "sort" /\ s_pc \in {"crawl", "walking", "done"}) =>
        stats.moved + stats.deleted + stats.skipped = Cardinality(Enumerated)

-----------------------------------------------------------------------------
(* The token classifier on single files of every asset type                *)

MaxClassTokens == 2

\* the leading parts: a brand prefix or none, a marker or none, and required
\* tokens, so that few further tokens decide between acceptance and rejection
ClassHeads == {
    <<"g","r","u","p","p","e","_","s","i","z","e","-","m","_","b","l","a","c","k">> (* gruppe_size-m_black *), <<"K","H","-","I","m","m","o","b","i","l","i","e","n","_","l","e","f","t","_","s","i","z","e","-","x","x","l","_","w","h","i","t","e">> (* KH-Immobilien_left_size-xxl_white *),
    <<"k","o","r","t","e","-","h","o","f","f","m","a","n","n","_","s","i","z","e","-","s","_","b","l","a","c","k">> (* korte-hoffmann_size-s_black *), <<"d","r","e","i","h","a","u","s","_","s","i","z","e","-","m","_","b","l","a","c","k">> (* dreihaus_size-m_black *),
    <<"g","r","u","p","p","e","_","f","a","v","i","c","o","n","_","b","l","a","c","k">> (* gruppe_favicon_black *), <<"k","o","r","t","e","-","h","o","f","f","m","a","n","n","_","m","o","n","o","g","r","a","m","_","w","h","i","t","e">> (* korte-hoffmann_monogram_white *),
    <<"f","a","v","i","c","o","n","_","b","l","a","c","k">> (* favicon_black *), <<"m","o","n","o","g","r","a","m">> (* monogram *) }

ClassTokens == {
    <<"l","e","f","t">> (* left *), <<"c","o","m","p","a","c","t">> (* compact *), <<"n","o","-","c","o","m","p","a","c","t">> (* no-compact *), <<"b","a","r">> (* bar *), <<"t","r","a","d","e","m","a","r","k">> (* trademark *), <<"n","o","-","c","l","e","a","r","s","p","a","c","e">> (* no-clearspace *),
    <<"n","o","-","l","o","c","k","u","p">> (* no-lockup *), <<"f","o","o">> (* foo *) }

ClassUrls ==
    {<<"a","/">> (* a/ *) \o JoinParts(h, t) \o <<".","s","v","g">> (* .svg *) :
        h \in ClassHeads, t \in ListsUpTo(ClassTokens, MaxClassTokens)}

InitTokens ==
    /\ urls \in {<<u>> : u \in ClassUrls}
    /\ pc = "parse"
    /\ i = 0
    /\ parsed_files = <<>>
    /\ ignored_log = <<>>
    /\ j = 0
    /\ grouped_logos = <<>>
    /\ logos_list = <<>>
    /\ manifest = None
    /\ run = 1
    /\ first = None
    /\ NamesIdle
    /\ SorterIdle
    /\ r_keys = AssetKeyList
    /\ r_name = <<>>
    /\ r_brand = None
    /\ r_pc = "off"

SpecTokens == InitTokens /\ [][Next]_vars

\* the record of the one file of the run
Record == parsed_files[1].raw_variants

\* the stem of the file as the loop body sees it, its brand key, its marker and
\* the parts behind the brand prefix
TheStem == PartsStr(Filename(urls[1]))

TheBrand == DetectBrand(TheStem, sorted_brand_keys(AssetKeyList))

TheHint == AssetKeyHint(TheStem)

TheParts == Range(RemainingParts(TheStem, TheBrand))

\* C22: a file whose stem has a brand or division prefix and a favicon or
\* monogram marker is, when accepted, a favicon or a monogram (a favicon when it
\* has both markers), and its record keeps the brand key as its division
C22_MarkerKeepsDivision ==
    (parsed_files # <<>> /\ TheBrand # None /\ TheHint # None) =>
        /\ Record["asset_type"] = TheHint
        /\ TheHint = (IF Contains(TheStem, T_favicon) THEN T_favicon ELSE T_monogram)
        /\ "division" \in DOMAIN Record
        /\ Record["division"] = TheBrand

\* an accepted korte-hoffmann monogram
C22_Witness ==
    /\ pc = "done"
    /\ parsed_files # <<>>
    /\ TheBrand = K_korte_hoffmann
    /\ Record["asset_type"] = T_monogram
    /\ Record["division"] = K_korte_hoffmann

\* C23: in the record of an accepted standard logo the legacy tokens are
\* rewritten into the lockup group: compact gives lockup center-compact,
\* no-compact gives lockup center, and the record has no group 'compact'
C23_LegacyCompactIsLockup ==
    (parsed_files # <<>> /\ Record["asset_type"] = T_standard_logo) =>
        /\ "compact" \notin DOMAIN Record
        /\ <<"c","o","m","p","a","c","t">> (* compact *) \in TheParts => Record["lockup"] = <<"c","e","n","t","e","r","-","c","o","m","p","a","c","t">> (* center-compact *)
        /\ <<"n","o","-","c","o","m","p","a","c","t">> (* no-compact *) \in TheParts => Record["lockup"] = <<"c","e","n","t","e","r">> (* center *)

\* the url of the file with the parts compact and no-compact taken out of its name
WithoutCompact(url) ==
    LET NotCompact(t) == Lower(t) \notin { <<"c","o","m","p","a","c","t">> (* compact *), <<"n","o","-","c","o","m","p","a","c","t">> (* no-compact *) }
        kept == SelectSeq(Split(Filename(url), "_"), NotCompact)
    IN  SubSeq(url, 1, RFind(url, "/")) \o JoinParts(Head(kept), Tail(kept))
            \o Splitext(url)[2]

\* C24: for a dreihaus logo, a favicon and a monogram the tokens compact and
\* no-compact are ignored: the file has the outcome of the file without them,
\* the same attributes when accepted and the same missing groups and unmatched
\* parts when rejected; no attribute 'compact' or 'lockup' comes from them and
\* they are not among the unmatched parts; looked at when the file has been
\* classified
C24_CompactIgnoredElsewhere ==
    (pc = "parse" /\ i = 1
        /\ AssetType(TheHint, TheBrand) \in {T_dreihaus_logo, T_favicon, T_monogram}) =>
        /\ Len(parsed_files) = Len(ClassifyFile(WithoutCompact(urls[1])).parsed)
        /\ parsed_files # <<>> =>
              /\ Record = ClassifyFile(WithoutCompact(urls[1])).parsed[1].raw_variants
              /\ "compact" \notin DOMAIN Record
        /\ ignored_log # <<>> =>
              /\ ignored_log[1].reason
                     = ClassifyFile(WithoutCompact(urls[1])).ignored[1].reason
              /\ \A n \in DOMAIN ignored_log[1].reason :
                     Range(ignored_log[1].reason[n].unmatched)
                         \cap { <<"c","o","m","p","a","c","t">> (* compact *), <<"n","o","-","c","o","m","p","a","c","t">> (* no-compact *) } = {}

\* an accepted dreihaus logo with compact, or an accepted favicon with no-compact,
\* in the name
C24_Witness ==
    /\ pc = "parse"
    /\ i = 1
    /\ parsed_files # <<>>
    /\ \/ Record["asset_type"] = T_dreihaus_logo /\ <<"c","o","m","p","a","c","t">> (* compact *) \in TheParts
       \/ Record["asset_type"] = T_favicon /\ <<"n","o","-","c","o","m","p","a","c","t">> (* no-compact *) \in TheParts
    /\ WithoutCompact(urls[1]) # urls[1]

\* the boolean-optional groups of an asset type
OptionalBooleans(asset_type) ==
    IF asset_type = T_standard_logo THEN {"bar", "trademark", "clearspace"}
    ELSE IF asset_type = T_korte_hoffmann_logotype THEN {"compact", "trademark", "clearspace"}
    ELSE IF asset_type = T_dreihaus_logo THEN {"trademark", "clearspace"}
    ELSE {}

\* C25: an accepted standard logo has bar, trademark and clearspace, an accepted
\* Korte-Hoffmann logotype compact, trademark and clearspace, an accepted
\* Dreihaus logo trademark and clearspace; each is a boolean, and it is false
\* when no token of the filename stands for the group
C25_OptionalBooleansDefined ==
    parsed_files # <<>> =>
        \A g \in OptionalBooleans(Record["asset_type"]) :
            /\ g \in DOMAIN Record
            /\ Record[g] \in BOOLEAN
            /\ (\A t \in TheParts : AssignedGroup(t, Record["asset_type"]) # g)
                   => Record[g] = FALSE

\* an accepted Dreihaus logo with a trademark token and no clearspace token
C25_Witness ==
    /\ pc = "done"
    /\ parsed_files # <<>>
    /\ Record["asset_type"] = T_dreihaus_logo
    /\ Record["trademark"] = TRUE
    /\ Record["clearspace"] = FALSE
    /\ \A t \in TheParts : AssignedGroup(t, T_dreihaus_logo) # "clearspace"

\* C26: a standard-logo file with the sentinel no-lockup among its tokens is
\* rejected, whatever its other tokens are: it gets no record and one log entry
\* that names no-lockup among the unmatched parts
C26_NoLockupRejected ==
    (i = 1 /\ AssetType(TheHint, TheBrand) = T_standard_logo /\ <<"n","o","-","l","o","c","k","u","p">> (* no-lockup *) \in TheParts) =>
        /\ parsed_files = <<>>
        /\ Len(ignored_log) = 1
        /\ \E n \in DOMAIN ignored_log[1].reason :
               <<"n","o","-","l","o","c","k","u","p">> (* no-lockup *) \in Range(ignored_log[1].reason[n].unmatched)

\* a rejected standard logo with every required group, a valid lockup token
\* included, and the sentinel
C26_Witness ==
    /\ pc = "done"
    /\ AssetType(TheHint, TheBrand) = T_standard_logo
    /\ { <<"l","e","f","t">> (* left *), <<"n","o","-","l","o","c","k","u","p">> (* no-lockup *), <<"s","i","z","e","-","x","x","l">> (* size-xxl *), <<"w","h","i","t","e">> (* white *) } \subseteq TheParts
    /\ parsed_files = <<>>
    /\ Len(ignored_log) = 1

-----------------------------------------------------------------------------
(* The catalog classifier and the sorter on the same file                  *)

\* github-linkfetch.py is run on the url of a file and sort-logos.py finds the
\* file in .sort
InitBoth ==
    /\ \E u \in ClassUrls :
          /\ urls = <<u>>
          /\ n_stem = Filename(u)
    /\ pc = "parse"
    /\ i = 0
    /\ parsed_files = <<>>
    /\ ignored_log = <<>>
    /\ j = 0
    /\ grouped_logos = <<>>
    /\ logos_list = <<>>
    /\ manifest = None
    /\ run = 1
    /\ first = None
    /\ n_pc = "start"
    /\ n_brand = None
    /\ n_tokens = None
    /\ n_subdir = None
    /\ n_new_base = None
    /\ n_again = None
    /\ SorterIdle
    /\ r_keys = AssetKeyList
    /\ r_name = <<>>
    /\ r_brand = None
    /\ r_pc = "off"

\* the two scripts run independently of each other
NextBoth == Next \/ NextNames

SpecBoth == InitBoth /\ [][NextBoth]_vars

\* a bool of the catalog as the sorter's bool | None
BoolStr(b) == IF b THEN "True" ELSE "False"

\* C30: for a stem the catalog classifier accepts, the sorter's tokens (behind
\* the legacy mapping and the defaults) have the lockup, bar, size, color,
\* trademark and clearspace of the catalog record, for every one of these
\* groups the record has
C30_ClassifiersAgree ==
    (parsed_files # <<>> /\ n_pc \in {"classified", "built", "again"}) =>
        /\ "lockup" \in DOMAIN Record => n_tokens.lockup = Record["lockup"]
        /\ "bar" \in DOMAIN Record => n_tokens.bar = BoolStr(Record["bar"])
        /\ "optical_size" \in DOMAIN Record => n_tokens.size = Record["optical_size"]
        /\ "color" \in DOMAIN Record => n_tokens.color = Record["color"]
        /\ "trademark" \in DOMAIN Record => n_tokens.trademark = BoolStr(Record["trademark"])
        /\ "clearspace" \in DOMAIN Record =>
               n_tokens.clearspace = BoolStr(Record["clearspace"])

====
